---- MODULE Spec2Model ----
(***************************************************************************)
(* Ingestion engine of the IPDR investigation backend: the CSV bulk upload *)
(* (IPDRController.uploadRecords), the single-record endpoint              *)
(* (IPDRController.addRecord), the IPDR schema with its validators and     *)
(* pre-save hook, and the creation of SuspiciousActivity documents.        *)
(*                                                                         *)
(* Conventions of the model                                                *)
(*  - a string is a sequence of one-character strings;                     *)
(*  - a JavaScript number is a record [nan, val]; NaN is [nan |-> TRUE];   *)
(*  - a Date is a number of milliseconds of local wall-clock time, an      *)
(*    Invalid Date is NaN;                                                 *)
(*  - latitudes and longitudes are fixed-point numbers in tenths of a      *)
(*    degree, confidence is in tenths;                                     *)
(*  - an ObjectId is a natural number taken from the counter nextId.       *)
(***************************************************************************)
EXTENDS Integers, Sequences, FiniteSets, TLC

\* Largest number of rows in the uploaded CSV file.
BatchLen == 2
\* Largest number of POST /records requests in one behaviour.
MaxAdds == 2
\* Largest number of sessions of the subject with its first destination.
MaxFreq == 11
\* Largest number of sessions of the subject with its second destination.
MaxSecond == 2
\* Largest number of other subscribers that contacted the first destination.
MaxOthers == 5
\* Largest number of anomaly events the case workflow resolves.
MaxResolves == 1
\* Largest number of login requests in one behaviour.
MaxLogins == 7
\* Latest time the clock reaches, in hours.
MaxClock == 4
\* Most login requests waiting for bcrypt at one time.
MaxInFlight == 2
\* Duration of a lock, in hours: 2 * 60 * 60 * 1000 ms.
LockHours == 2

---------------------------------------------------------------------------
(* Strings and numbers *)

Digits == {"0", "1", "2", "3", "4", "5", "6", "7", "8", "9"}

DigitVal(c) ==
    CASE c = "0" -> 0 [] c = "1" -> 1 [] c = "2" -> 2 [] c = "3" -> 3
      [] c = "4" -> 4 [] c = "5" -> 5 [] c = "6" -> 6 [] c = "7" -> 7
      [] c = "8" -> 8 [] c = "9" -> 9

DigitChar(d) ==
    CASE d = 0 -> "0" [] d = 1 -> "1" [] d = 2 -> "2" [] d = 3 -> "3"
      [] d = 4 -> "4" [] d = 5 -> "5" [] d = 6 -> "6" [] d = 7 -> "7"
      [] d = 8 -> "8" [] d = 9 -> "9"

\* Decimal spelling of a natural number (used to write the inputs down).
RECURSIVE Dec(_)
Dec(n) == IF n < 10 THEN <<DigitChar(n)>> ELSE Dec(n \div 10) \o <<DigitChar(n % 10)>>

Num(v) == [nan |-> FALSE, val |-> v]
NaN == [nan |-> TRUE, val |-> 0]

\* Index of the first character at or after i that is not white space.
RECURSIVE SkipWs(_, _)
SkipWs(s, i) == IF i <= Len(s) /\ s[i] = " " THEN SkipWs(s, i + 1) ELSE i

\* The run of decimal digits of s that starts at i: its length and value.
RECURSIVE DigitRun(_, _, _, _)
DigitRun(s, i, cnt, acc) ==
    IF i <= Len(s) /\ s[i] \in Digits
    THEN DigitRun(s, i + 1, cnt + 1, acc * 10 + DigitVal(s[i]))
    ELSE [cnt |-> cnt, val |-> acc, stop |-> i]

\* parseInt(string): leading white space, an optional sign, then the longest
\* run of digits; NaN when there is no digit.
ParseInt(s) ==
    LET i0 == SkipWs(s, 1)
        signed == i0 <= Len(s) /\ s[i0] \in {"-", "+"}
        neg == signed /\ s[i0] = "-"
        run == DigitRun(s, IF signed THEN i0 + 1 ELSE i0, 0, 0)
    IN  IF run.cnt = 0 THEN NaN
        ELSE Num(IF neg THEN 0 - run.val ELSE run.val)

\* parseFloat(string), in tenths: sign, integer digits, an optional fraction
\* of which the first digit is kept.
ParseFloat(s) ==
    LET i0 == SkipWs(s, 1)
        signed == i0 <= Len(s) /\ s[i0] \in {"-", "+"}
        neg == signed /\ s[i0] = "-"
        ip == DigitRun(s, IF signed THEN i0 + 1 ELSE i0, 0, 0)
        hasDot == ip.stop <= Len(s) /\ s[ip.stop] = "."
        fp == IF hasDot THEN DigitRun(s, ip.stop + 1, 0, 0)
              ELSE [cnt |-> 0, val |-> 0, stop |-> ip.stop]
        tenth == IF fp.cnt = 0 THEN 0 ELSE DigitVal(s[ip.stop + 1])
        mag == ip.val * 10 + tenth
    IN  IF ip.cnt = 0 /\ fp.cnt = 0 THEN NaN
        ELSE Num(IF neg THEN 0 - mag ELSE mag)

\* new Date(string): the raw text either is a timestamp the engine parses
\* (iso) or is not, which yields an Invalid Date.
NewDate(raw) == IF raw.iso THEN Num(raw.ms) ELSE NaN

\* Date.prototype.getHours() of a local wall-clock time in milliseconds.
GetHours(t) == (t \div 3600000) % 24

\* Milliseconds of a day, and the time of minute m of hour h of day d.
DayMs == 24 * 3600000
At(d, h, m) == d * DayMs + h * 3600000 + m * 60000

\* new Date() and Date.now(): the time at which the requests are served.
Now == At(22, 0, 0)

AllDigits(s) == \A i \in 1..Len(s) : s[i] \in Digits

\* /^(?:[0-9]{1,3}\.){3}[0-9]{1,3}$/
RECURSIVE IPScan(_, _, _)
IPScan(s, i, seg) ==
    LET run == DigitRun(s, i, 0, 0)
    IN  IF run.cnt < 1 \/ run.cnt > 3 THEN FALSE
        ELSE IF seg = 4 THEN run.stop = Len(s) + 1
        ELSE run.stop <= Len(s) /\ s[run.stop] = "." /\ IPScan(s, run.stop + 1, seg + 1)

MatchIP(s) == IPScan(s, 1, 1)

\* /^[0-9]{10,15}$/
MatchPhone(s) == Len(s) >= 10 /\ Len(s) <= 15 /\ AllDigits(s)

\* /^[0-9]{15}$/
MatchId15(s) == Len(s) = 15 /\ AllDigits(s)

---------------------------------------------------------------------------
(* JavaScript arithmetic and comparison on numbers that may be NaN *)

Add(a, b) == IF a.nan \/ b.nan THEN NaN ELSE Num(a.val + b.val)
Sub(a, b) == IF a.nan \/ b.nan THEN NaN ELSE Num(a.val - b.val)
Gt(a, b) == ~a.nan /\ ~b.nan /\ a.val > b.val
Lt(a, b) == ~a.nan /\ ~b.nan /\ a.val < b.val

---------------------------------------------------------------------------
(* The IPDR schema *)

AccessTypes == {"2G", "3G", "4G", "5G"}

IPDRReasonEnum ==
    {"HIGH_NIGHT_ACTIVITY", "UNUSUAL_DATA_VOLUME", "MULTIPLE_DEVICES",
     "LOCATION_ANOMALY", "SHORT_DURATION_FREQUENT", "FOREIGN_IP_COMMUNICATION"}

\* A field the caller did not supply.
Unset == [set |-> FALSE, num |-> NaN, flag |-> FALSE, list |-> <<>>]
SetNum(n) == [set |-> TRUE, num |-> n, flag |-> FALSE, list |-> <<>>]
SetFlag(b) == [set |-> TRUE, num |-> NaN, flag |-> b, list |-> <<>>]
SetList(l) == [set |-> TRUE, num |-> NaN, flag |-> FALSE, list |-> l]

\* The object literal uploadRecords builds from one CSV row.
RowToRecordData(row) ==
    [privateIP |-> row.privateIP,
     privatePort |-> ParseInt(row.privatePort),
     publicIP |-> row.publicIP,
     publicPort |-> ParseInt(row.publicPort),
     destIP |-> row.destIP,
     destPort |-> ParseInt(row.destPort),
     phoneNumber |-> row.phoneNumber,
     imei |-> row.imei,
     imsi |-> row.imsi,
     startTime |-> NewDate(row.startTime),
     endTime |-> NewDate(row.endTime),
     originCellID |-> row.originCellID,
     originLat |-> ParseFloat(row.originLat),
     originLong |-> ParseFloat(row.originLong),
     uplinkVolume |-> ParseInt(row.uplinkVolume),
     downlinkVolume |-> ParseInt(row.downlinkVolume),
     accessType |-> row.accessType,
     givenTotalVolume |-> Unset,
     givenDuration |-> Unset,
     givenSuspicious |-> Unset,
     givenReasons |-> Unset]

\* new IPDR(data): the document with its _id and the schema defaults
\* (duration, location.coordinates, totalVolume, suspicious,
\* suspiciousReasons) for the paths the caller left out.
NewIPDR(data, id) ==
    [_id |-> id,
     privateIP |-> data.privateIP,
     privatePort |-> data.privatePort,
     publicIP |-> data.publicIP,
     publicPort |-> data.publicPort,
     destIP |-> data.destIP,
     destPort |-> data.destPort,
     phoneNumber |-> data.phoneNumber,
     imei |-> data.imei,
     imsi |-> data.imsi,
     startTime |-> data.startTime,
     endTime |-> data.endTime,
     duration |-> IF data.givenDuration.set THEN data.givenDuration.num
                  ELSE Sub(data.endTime, data.startTime),
     originCellID |-> data.originCellID,
     originLat |-> data.originLat,
     originLong |-> data.originLong,
     coordinates |-> <<data.originLong, data.originLat>>,
     uplinkVolume |-> data.uplinkVolume,
     downlinkVolume |-> data.downlinkVolume,
     totalVolume |-> IF data.givenTotalVolume.set THEN data.givenTotalVolume.num
                     ELSE Add(data.uplinkVolume, data.downlinkVolume),
     accessType |-> data.accessType,
     suspicious |-> IF data.givenSuspicious.set THEN data.givenSuspicious.flag
                    ELSE FALSE,
     suspiciousReasons |-> IF data.givenReasons.set THEN data.givenReasons.list
                           ELSE <<>>,
     createdAt |-> Num(Now)]

\* The port validator with min: 0.
PortOk_AllowZero(p) == ~p.nan /\ p.val >= 0 /\ p.val <= 65535

\* min: 1, max: 65535 of the three ports.
PortOk(p) == ~p.nan /\ p.val >= 1 /\ p.val <= 65535

Fail(path, failed) == IF failed THEN {path} ELSE {}

\* The paths of a document that fail casting or a schema validator
\* (document.validate(), which save() runs before the pre('save') hook).
ValidationErrors(doc) ==
         Fail("privateIP", ~MatchIP(doc.privateIP))
    \cup Fail("privatePort", ~PortOk(doc.privatePort))
    \cup Fail("publicIP", ~MatchIP(doc.publicIP))
    \cup Fail("publicPort", ~PortOk(doc.publicPort))
    \cup Fail("destIP", ~MatchIP(doc.destIP))
    \cup Fail("destPort", ~PortOk(doc.destPort))
    \cup Fail("phoneNumber", ~MatchPhone(doc.phoneNumber))
    \cup Fail("imei", ~MatchId15(doc.imei))
    \cup Fail("imsi", ~MatchId15(doc.imsi))
    \cup Fail("startTime", doc.startTime.nan)
    \cup Fail("endTime", ~Gt(doc.endTime, doc.startTime))
    \cup Fail("duration", doc.duration.nan)
    \cup Fail("originCellID", doc.originCellID = "")
    \cup Fail("originLat", doc.originLat.nan \/ doc.originLat.val < -900
                             \/ doc.originLat.val > 900)
    \cup Fail("originLong", doc.originLong.nan \/ doc.originLong.val < -1800
                              \/ doc.originLong.val > 1800)
    \cup Fail("uplinkVolume", doc.uplinkVolume.nan \/ doc.uplinkVolume.val < 0)
    \cup Fail("downlinkVolume", doc.downlinkVolume.nan \/ doc.downlinkVolume.val < 0)
    \cup Fail("totalVolume", doc.totalVolume.nan)
    \cup Fail("accessType", doc.accessType \notin AccessTypes)
    \cup Fail("suspiciousReasons",
              \E k \in 1..Len(doc.suspiciousReasons) :
                  doc.suspiciousReasons[k] \notin IPDRReasonEnum)

\* Helpers.isNightTime
isNightTime(date) ==
    LET hour == GetHours(date.val)
    IN  hour >= 22 \/ hour <= 6

\* checkSuspicious with the night rule stopping before 6 o'clock.
checkSuspicious_NightBefore6(doc) ==
    LET hour == GetHours(doc.startTime.val)
        night == IF hour >= 22 \/ hour < 6 THEN <<"HIGH_NIGHT_ACTIVITY">> ELSE <<>>
        volume == IF Gt(doc.totalVolume, Num(10485760))
                  THEN <<"UNUSUAL_DATA_VOLUME">> ELSE <<>>
        short == IF Lt(doc.duration, Num(30000))
                 THEN <<"SHORT_DURATION_FREQUENT">> ELSE <<>>
        reasons == night \o volume \o short
    IN  [doc EXCEPT !.suspicious = Len(reasons) > 0,
                    !.suspiciousReasons = reasons]

\* checkSuspicious with the volume rule firing at the threshold itself.
checkSuspicious_VolumeAtThreshold(doc) ==
    LET hour == GetHours(doc.startTime.val)
        night == IF hour >= 22 \/ hour <= 6 THEN <<"HIGH_NIGHT_ACTIVITY">> ELSE <<>>
        volume == IF ~Lt(doc.totalVolume, Num(10485760))
                  THEN <<"UNUSUAL_DATA_VOLUME">> ELSE <<>>
        short == IF Lt(doc.duration, Num(30000))
                 THEN <<"SHORT_DURATION_FREQUENT">> ELSE <<>>
        reasons == night \o volume \o short
    IN  [doc EXCEPT !.suspicious = Len(reasons) > 0,
                    !.suspiciousReasons = reasons]

\* checkSuspicious with the duration rule firing at the threshold itself.
checkSuspicious_ShortAtThreshold(doc) ==
    LET hour == GetHours(doc.startTime.val)
        night == IF hour >= 22 \/ hour <= 6 THEN <<"HIGH_NIGHT_ACTIVITY">> ELSE <<>>
        volume == IF Gt(doc.totalVolume, Num(10485760))
                  THEN <<"UNUSUAL_DATA_VOLUME">> ELSE <<>>
        short == IF ~Gt(doc.duration, Num(30000))
                 THEN <<"SHORT_DURATION_FREQUENT">> ELSE <<>>
        reasons == night \o volume \o short
    IN  [doc EXCEPT !.suspicious = Len(reasons) > 0,
                    !.suspiciousReasons = reasons]

\* checkSuspicious pushing onto the reasons the document already has.
checkSuspicious_Accumulate(doc) ==
    LET hour == GetHours(doc.startTime.val)
        night == IF hour >= 22 \/ hour <= 6 THEN <<"HIGH_NIGHT_ACTIVITY">> ELSE <<>>
        volume == IF Gt(doc.totalVolume, Num(10485760))
                  THEN <<"UNUSUAL_DATA_VOLUME">> ELSE <<>>
        short == IF Lt(doc.duration, Num(30000))
                 THEN <<"SHORT_DURATION_FREQUENT">> ELSE <<>>
        reasons == doc.suspiciousReasons \o night \o volume \o short
    IN  [doc EXCEPT !.suspicious = Len(reasons) > 0,
                    !.suspiciousReasons = reasons]

\* IPDRSchema.methods.checkSuspicious
checkSuspicious(doc) ==
    LET hour == GetHours(doc.startTime.val)
        night == IF hour >= 22 \/ hour <= 6 THEN <<"HIGH_NIGHT_ACTIVITY">> ELSE <<>>
        volume == IF Gt(doc.totalVolume, Num(10485760))
                  THEN <<"UNUSUAL_DATA_VOLUME">> ELSE <<>>
        short == IF Lt(doc.duration, Num(30000))
                 THEN <<"SHORT_DURATION_FREQUENT">> ELSE <<>>
        reasons == night \o volume \o short
    IN  [doc EXCEPT !.suspicious = Len(reasons) > 0,
                    !.suspiciousReasons = reasons]

\* The pre-save hook without its call of checkSuspicious.
PreSave_NoClassification(doc) ==
    [doc EXCEPT !.totalVolume = Add(doc.uplinkVolume, doc.downlinkVolume),
                !.duration = Sub(doc.endTime, doc.startTime),
                !.coordinates = <<doc.originLong, doc.originLat>>]

\* The pre-save hook without the recomputation of totalVolume and duration.
PreSave_NoRecompute(doc) ==
    checkSuspicious([doc EXCEPT !.coordinates = <<doc.originLong, doc.originLat>>])

\* The pre-save hook classifying before it recomputes the derived fields.
PreSave_ClassifyFirst(doc) ==
    [checkSuspicious(doc) EXCEPT
        !.totalVolume = Add(doc.uplinkVolume, doc.downlinkVolume),
        !.duration = Sub(doc.endTime, doc.startTime),
        !.coordinates = <<doc.originLong, doc.originLat>>]

\* IPDRSchema.pre('save')
PreSave(doc) ==
    checkSuspicious(
        [doc EXCEPT !.totalVolume = Add(doc.uplinkVolume, doc.downlinkVolume),
                    !.duration = Sub(doc.endTime, doc.startTime),
                    !.coordinates = <<doc.originLong, doc.originLat>>])

---------------------------------------------------------------------------
(* POST /records: the express-validator chain and Mongoose's casting *)

\* isInt(): /^[-+]?(0|[1-9][0-9]*)$/
IsIntText(s) ==
    LET signed == Len(s) >= 1 /\ s[1] \in {"-", "+"}
        first == IF signed THEN 2 ELSE 1
        run == DigitRun(s, first, 0, 0)
    IN  /\ run.cnt >= 1
        /\ run.stop = Len(s) + 1
        /\ (s[first] = "0" => run.cnt = 1)

\* isFloat(): sign, digits, an optional fraction; not empty, not a bare sign
\* or dot.
IsFloatText(s) ==
    LET signed == Len(s) >= 1 /\ s[1] \in {"-", "+"}
        ip == DigitRun(s, IF signed THEN 2 ELSE 1, 0, 0)
        hasDot == ip.stop <= Len(s) /\ s[ip.stop] = "."
        fp == IF hasDot THEN DigitRun(s, ip.stop + 1, 0, 0)
              ELSE [cnt |-> 0, val |-> 0, stop |-> ip.stop]
    IN  /\ fp.stop = Len(s) + 1
        /\ ip.cnt + fp.cnt >= 1

\* isIP() on dotted text: four decimal octets, each at most 255 and without
\* a leading zero.
RECURSIVE IPv4Scan(_, _, _)
IPv4Scan(s, i, seg) ==
    LET run == DigitRun(s, i, 0, 0)
    IN  IF run.cnt < 1 \/ run.cnt > 3 \/ run.val > 255 \/ (run.cnt > 1 /\ s[i] = "0")
        THEN FALSE
        ELSE IF seg = 4 THEN run.stop = Len(s) + 1
        ELSE run.stop <= Len(s) /\ s[run.stop] = "." /\ IPv4Scan(s, run.stop + 1, seg + 1)

IsIP(s) == IPv4Scan(s, 1, 1)

IntInRange(s, lo, hi) == IsIntText(s) /\ ParseInt(s).val >= lo /\ ParseInt(s).val <= hi

\* The fields of a request body the validation chain of POST /records
\* rejects (validationResult(req)).
BodyErrors(body) ==
         Fail("privateIP", ~IsIP(body.privateIP))
    \cup Fail("privatePort", ~IntInRange(body.privatePort, 1, 65535))
    \cup Fail("publicIP", ~IsIP(body.publicIP))
    \cup Fail("publicPort", ~IntInRange(body.publicPort, 1, 65535))
    \cup Fail("destIP", ~IsIP(body.destIP))
    \cup Fail("destPort", ~IntInRange(body.destPort, 1, 65535))
    \cup Fail("phoneNumber", ~MatchPhone(body.phoneNumber))
    \cup Fail("imei", ~MatchId15(body.imei))
    \cup Fail("imsi", ~MatchId15(body.imsi))
    \cup Fail("startTime", ~body.startTime.iso)
    \cup Fail("endTime", ~body.endTime.iso)
    \cup Fail("originCellID", body.originCellID = "")
    \cup Fail("originLat", ~IsFloatText(body.originLat)
                             \/ ParseFloat(body.originLat).val < -900
                             \/ ParseFloat(body.originLat).val > 900)
    \cup Fail("originLong", ~IsFloatText(body.originLong)
                              \/ ParseFloat(body.originLong).val < -1800
                              \/ ParseFloat(body.originLong).val > 1800)
    \cup Fail("uplinkVolume", ~IsIntText(body.uplinkVolume) \/ ParseInt(body.uplinkVolume).val < 0)
    \cup Fail("downlinkVolume", ~IsIntText(body.downlinkVolume) \/ ParseInt(body.downlinkVolume).val < 0)
    \cup Fail("accessType", body.accessType \notin AccessTypes)

\* Mongoose's cast of a text to Number: the whole text must be a number.
CastInt(s) == IF IsIntText(s) THEN ParseInt(s) ELSE NaN
CastFloat(s) == IF IsFloatText(s) THEN ParseFloat(s) ELSE NaN

\* { ...req.body, createdBy } as handed to new IPDR() by addRecord: the body's
\* own fields, cast by the schema, and whatever derived fields the caller
\* chose to send along.
BodyToRecordData(body) ==
    [privateIP |-> body.privateIP,
     privatePort |-> CastInt(body.privatePort),
     publicIP |-> body.publicIP,
     publicPort |-> CastInt(body.publicPort),
     destIP |-> body.destIP,
     destPort |-> CastInt(body.destPort),
     phoneNumber |-> body.phoneNumber,
     imei |-> body.imei,
     imsi |-> body.imsi,
     startTime |-> NewDate(body.startTime),
     endTime |-> NewDate(body.endTime),
     originCellID |-> body.originCellID,
     originLat |-> CastFloat(body.originLat),
     originLong |-> CastFloat(body.originLong),
     uplinkVolume |-> CastInt(body.uplinkVolume),
     downlinkVolume |-> CastInt(body.downlinkVolume),
     accessType |-> body.accessType,
     givenTotalVolume |-> body.totalVolume,
     givenDuration |-> body.duration,
     givenSuspicious |-> body.suspicious,
     givenReasons |-> body.suspiciousReasons]

---------------------------------------------------------------------------
(* The SuspiciousActivity schema and the controller's helpers *)

\* IPDRController.getSeverity
getSeverity(reason) ==
    CASE reason = "HIGH_NIGHT_ACTIVITY" -> "MEDIUM"
      [] reason = "UNUSUAL_DATA_VOLUME" -> "HIGH"
      [] reason = "SHORT_DURATION_FREQUENT" -> "HIGH"
      [] reason = "MULTIPLE_DEVICES" -> "CRITICAL"
      [] OTHER -> "MEDIUM"

\* The weight table with the weights of HIGH and CRITICAL shifted by one row.
severityMap_Shifted(severity) ==
    CASE severity = "LOW" -> 25
      [] severity = "MEDIUM" -> 50
      [] severity = "HIGH" -> 100
      [] severity = "CRITICAL" -> 100

\* severityMap of the riskScore default
severityMap(severity) ==
    CASE severity = "LOW" -> 25
      [] severity = "MEDIUM" -> 50
      [] severity = "HIGH" -> 75
      [] severity = "CRITICAL" -> 100

\* new SuspiciousActivity({...}) as createSuspiciousActivity builds it in the
\* k-th iteration of its loop, with the schema defaults for status and
\* riskScore; confidence 0.8 is 8 tenths. The fresh _id is written as the
\* pair of the record's _id and k.
NewSuspiciousActivity(record, k) ==
    [_id |-> <<record._id, k>>,
     type |-> record.suspiciousReasons[k],
     phoneNumber |-> record.phoneNumber,
     imei |-> record.imei,
     imsi |-> record.imsi,
     firstOccurrence |-> record.startTime,
     lastOccurrence |-> record.endTime,
     ipdrRecords |-> <<record._id>>,
     severity |-> getSeverity(record.suspiciousReasons[k]),
     confidence |-> 8,
     riskScore |-> (severityMap(getSeverity(record.suspiciousReasons[k])) * 8) \div 10,
     status |-> "NEW",
     detectedAt |-> Num(Now)]

---------------------------------------------------------------------------
(* Inputs: the rows a CSV file may hold *)

IP4(a, b, c, d) == Dec(a) \o <<".">> \o Dec(b) \o <<".">> \o Dec(c) \o <<".">> \o Dec(d)

Iso(ms) == [iso |-> TRUE, ms |-> ms]
Garbage == [iso |-> FALSE, ms |-> 0]

\* 10:00 local time, one minute long, 3 KiB: triggers no rule.
RowBenign ==
    [privateIP |-> IP4(10, 0, 0, 1),
     privatePort |-> Dec(12345),
     publicIP |-> IP4(203, 0, 113, 1),
     publicPort |-> Dec(80),
     destIP |-> IP4(198, 51, 100, 1),
     destPort |-> Dec(443),
     phoneNumber |-> Dec(98765) \o Dec(43210),
     imei |-> Dec(12345) \o Dec(67890) \o Dec(12345),
     imsi |-> Dec(40401) \o Dec(23456) \o Dec(78901),
     startTime |-> Iso(10 * 3600000),
     endTime |-> Iso(10 * 3600000 + 60000),
     originCellID |-> "CELL-1",
     originLat |-> Dec(28) \o <<".">> \o Dec(6),
     originLong |-> Dec(77) \o <<".">> \o Dec(2),
     uplinkVolume |-> Dec(1024),
     downlinkVolume |-> Dec(2048),
     accessType |-> "4G"]

\* 23:00, 29,999 ms, 10,485,761 bytes: triggers the three rules.
RowAllRules ==
    [RowBenign EXCEPT !.startTime = Iso(23 * 3600000),
                      !.endTime = Iso(23 * 3600000 + 29999),
                      !.uplinkVolume = Dec(10485760),
                      !.downlinkVolume = Dec(1),
                      !.originCellID = "CELL-2"]

\* 06:59, triggers the night rule only.
RowNight ==
    [RowBenign EXCEPT !.startTime = Iso(6 * 3600000 + 59 * 60000),
                      !.endTime = Iso(7 * 3600000 + 59 * 60000),
                      !.phoneNumber = Dec(91234) \o Dec(56789)]

\* 07:00, exactly 30,000 ms and exactly 10,485,760 bytes: the boundary values
\* of the three rules; the port text has trailing garbage parseInt ignores.
RowBoundary ==
    [RowBenign EXCEPT !.startTime = Iso(7 * 3600000),
                      !.endTime = Iso(7 * 3600000 + 30000),
                      !.uplinkVolume = Dec(10485760),
                      !.downlinkVolume = Dec(0),
                      !.destPort = Dec(443) \o <<"x">>]

\* Malformed: the private port is not a number.
RowBadPort == [RowBenign EXCEPT !.privatePort = <<"a", "b", "c">>]

\* Malformed: the session ends when it starts.
RowBadTime == [RowBenign EXCEPT !.endTime = Iso(10 * 3600000)]

\* Rows that break one validation rule each: a port of 0, of 65536 and of
\* -1, a session that ends when it starts, a latitude of 90.1, a longitude of
\* -180.1, a negative uplink and downlink volume, an unknown access type.
RowRejects ==
    {[RowBenign EXCEPT !.privatePort = Dec(0)],
     [RowBenign EXCEPT !.publicPort = Dec(65536)],
     [RowBenign EXCEPT !.destPort = <<"-">> \o Dec(1)],
     RowBadTime,
     [RowBenign EXCEPT !.originLat = Dec(90) \o <<".">> \o Dec(1)],
     [RowBenign EXCEPT !.originLong = <<"-">> \o Dec(180) \o <<".">> \o Dec(1)],
     [RowBenign EXCEPT !.uplinkVolume = <<"-">> \o Dec(1)],
     [RowBenign EXCEPT !.downlinkVolume = <<"-">> \o Dec(1)],
     [RowBenign EXCEPT !.accessType = "6G"]}

\* The rows an uploaded file is made of: a harmless one, a suspicious one
\* and a malformed one.
RowSamples == {RowBenign, RowAllRules, RowBadPort}

\* A request body with the fields of a row and no derived field.
AsBody(row) ==
    [privateIP |-> row.privateIP, privatePort |-> row.privatePort,
     publicIP |-> row.publicIP, publicPort |-> row.publicPort,
     destIP |-> row.destIP, destPort |-> row.destPort,
     phoneNumber |-> row.phoneNumber, imei |-> row.imei, imsi |-> row.imsi,
     startTime |-> row.startTime, endTime |-> row.endTime,
     originCellID |-> row.originCellID,
     originLat |-> row.originLat, originLong |-> row.originLong,
     uplinkVolume |-> row.uplinkVolume, downlinkVolume |-> row.downlinkVolume,
     accessType |-> row.accessType,
     totalVolume |-> Unset, duration |-> Unset,
     suspicious |-> Unset, suspiciousReasons |-> Unset]

\* The caller sends its own derived fields, all of them wrong.
BodySupplied ==
    [AsBody(RowBenign) EXCEPT !.originCellID = "CELL-S",
                              !.totalVolume = SetNum(Num(99999999)),
                              !.duration = SetNum(Num(5)),
                              !.suspicious = SetFlag(TRUE),
                              !.suspiciousReasons = SetList(<<"MULTIPLE_DEVICES">>)]

\* The caller claims a suspicious night session to be harmless.
BodyUnderstated ==
    [AsBody(RowNight) EXCEPT !.totalVolume = SetNum(Num(0)),
                             !.suspicious = SetFlag(FALSE)]

\* Rejected by the validation chain: the port is out of range.
BodyBadPort == [AsBody(RowBenign) EXCEPT !.privatePort = Dec(70000)]

\* Start hours, session lengths and volumes around the thresholds of the
\* three rules.
GridHours == {0, 6, 7, 10, 21, 22, 23}
GridDurations == {29999, 30000}
GridUplinks == {10485759, 10485760}

\* Every start hour with a harmless length and volume, and every length and
\* volume at 10:00; the downlink volume is one byte.
GridBodies ==
         {[AsBody(RowBenign) EXCEPT !.startTime = Iso(h * 3600000 + 3599999),
                                    !.endTime = Iso(h * 3600000 + 3599999 + 60000)] :
             h \in GridHours}
    \cup {[AsBody(RowBenign) EXCEPT !.endTime = Iso(10 * 3600000 + d),
                                    !.uplinkVolume = Dec(u),
                                    !.downlinkVolume = Dec(1)] :
             d \in GridDurations, u \in GridUplinks}

\* Rejected by the validation chain: the start time is not a timestamp.
BodyBadDate == [AsBody(RowBenign) EXCEPT !.startTime = Garbage]

BodySamples ==
    {AsBody(RowAllRules), AsBody(RowBoundary), AsBody(RowBadTime),
     BodySupplied, BodyUnderstated, BodyBadPort, BodyBadDate}

StoreModes == {"up", "down", "flaky"}

\* Outcomes of one write to the record store: it succeeds when the store is
\* up, fails when it is unavailable, and may do either on a flaky connection.
WriteOutcomes(mode) ==
    CASE mode = "up" -> {TRUE}
      [] mode = "down" -> {FALSE}
      [] OTHER -> {TRUE, FALSE}

---------------------------------------------------------------------------
(* State *)

VARIABLES
    hasFile,     \* req.file is present
    rows,        \* the rows of the uploaded CSV file, in file order
    thisBound,   \* uploadRecords was called as a method (this is the controller)
    storeMode,   \* availability of the record store
    nextRow,     \* position of the CSV parser: the next row it will emit
    pc,          \* per row, the position of its 'data' handler
    rec,         \* per row, the handler's local `record`
    emitIdx,     \* per row, the position of createSuspiciousActivity's loop
    processed,   \* uploadRecords' counter
    created,     \* uploadRecords' counter
    errors,      \* uploadRecords' list of failures
    response,    \* the HTTP response of the upload request
    records,     \* the IPDR collection
    activities,  \* the SuspiciousActivity collection
    nextId,      \* source of fresh ObjectIds
    errorLog,    \* what logger.error has been called with
    adds,        \* number of POST /records requests served
    addResponse, \* the HTTP response of the latest POST /records request
    reply,       \* the HTTP response of the latest analytics request
    other,       \* the locals of a second uploadRecords call that is not running
    user,        \* the stored User document the login requests are for
    clock,       \* Date.now(), in hours
    logins,      \* the login requests begun so far: position and locals of each
    loginResponse \* the HTTP response of the latest answered login request

vars == <<hasFile, rows, thisBound, storeMode, nextRow, pc, rec, emitIdx,
          processed, created, errors, response, records, activities, nextId,
          errorLog, adds, addResponse, reply, other, user, clock, logins,
          loginResponse>>

NoDoc == [_id |-> 0]
NoResponse == [status |-> 0]
NoReply == [query |-> "", status |-> 0]
NoCall == [rows |-> <<>>, nextRow |-> 0]

\* A registered, active user who has not failed a login, and no login
\* request: loginAttempts and lockUntil are absent from the stored document.
NoLogins ==
    /\ user = [isActive |-> TRUE, loginAttempts |-> <<>>, lockUntil |-> <<>>]
    /\ clock = 0
    /\ logins = <<>>
    /\ loginResponse = NoResponse

RowIds == 1..Len(rows)

Init ==
    /\ hasFile \in BOOLEAN
    /\ rows \in UNION {[1..n -> RowSamples] : n \in 0..BatchLen}
    /\ hasFile = FALSE => rows = <<>>
    /\ thisBound \in BOOLEAN
    /\ storeMode \in StoreModes
    /\ nextRow = 1
    /\ pc = [i \in RowIds |-> "waiting"]
    /\ rec = [i \in RowIds |-> NoDoc]
    /\ emitIdx = [i \in RowIds |-> 0]
    /\ processed = 0
    /\ created = 0
    /\ errors = <<>>
    /\ response = NoResponse
    /\ records = {}
    /\ activities = {}
    /\ nextId = 1
    /\ errorLog = {}
    /\ adds = 0
    /\ addResponse = NoResponse
    /\ reply = NoReply
    /\ other = NoCall
    /\ NoLogins

---------------------------------------------------------------------------
(* uploadRecords *)

\* if (!req.file) return res.status(400)
UploadNoFile ==
    /\ ~hasFile
    /\ response = NoResponse
    /\ response' = [status |-> 400, success |-> FALSE]
    /\ UNCHANGED <<hasFile, rows, thisBound, storeMode, nextRow, pc, rec, emitIdx,
                   processed, created, errors, records, activities, nextId, errorLog,
                   adds, addResponse, reply, other,
                   user, clock, logins, loginResponse>>

\* record.save() that rejects every document once the batch has a failure.
SaveResult_FailFast(doc, writeOk) ==
    IF ValidationErrors(doc) # {} \/ errors # <<>> THEN "ValidationError"
    ELSE IF ~writeOk THEN "MongoError"
    ELSE "ok"

\* How record.save() of a row's document settles: "ok", or the error it
\* rejects with.
SaveResult(doc, writeOk) ==
    IF ValidationErrors(doc) # {} THEN "ValidationError"
    ELSE IF ~writeOk THEN "MongoError"
    ELSE "ok"

\* The entry the per-row catch block pushes: the counter `processed` as it
\* is when the catch block runs, and the row object of this handler.
ErrorEntry(i, message) == [row |-> processed, error |-> message, data |-> i]

\* The 'data' handler up to its first await: processed++, the mapping of the
\* row, new IPDR(recordData) and the call of record.save().
Data(i) ==
    /\ hasFile
    /\ i = nextRow
    /\ i <= Len(rows)
    /\ nextRow' = nextRow + 1
    /\ processed' = processed + 1
    /\ rec' = [rec EXCEPT ![i] = NewIPDR(RowToRecordData(rows[i]), nextId)]
    /\ nextId' = nextId + 1
    /\ pc' = [pc EXCEPT ![i] = "saving"]
    /\ UNCHANGED <<hasFile, rows, thisBound, storeMode, emitIdx, created, errors,
                   response, records, activities, errorLog, adds, addResponse, reply, other,
                   user, clock, logins, loginResponse>>

\* The handler resumes after `await record.save()`: on success created++ and,
\* for a suspicious record, the call of this.createSuspiciousActivity, which
\* throws a TypeError when `this` is undefined; on rejection the catch block.
SaveSettled(i) ==
    /\ i \in RowIds
    /\ pc[i] = "saving"
    /\ \E writeOk \in WriteOutcomes(storeMode) :
         LET result == SaveResult(rec[i], writeOk)
             saved == PreSave(rec[i])
         IN  IF result = "ok"
             THEN /\ records' = records \cup {saved}
                  /\ rec' = [rec EXCEPT ![i] = saved]
                  /\ created' = created + 1
                  /\ IF ~saved.suspicious
                     THEN /\ pc' = [pc EXCEPT ![i] = "done"]
                          /\ UNCHANGED <<errors, emitIdx>>
                     ELSE IF thisBound
                     THEN /\ pc' = [pc EXCEPT ![i] = "emitting"]
                          /\ emitIdx' = [emitIdx EXCEPT ![i] = 1]
                          /\ UNCHANGED errors
                     ELSE /\ pc' = [pc EXCEPT ![i] = "done"]
                          /\ errors' = Append(errors, ErrorEntry(i, "TypeError"))
                          /\ UNCHANGED emitIdx
             ELSE /\ errors' = Append(errors, ErrorEntry(i, result))
                  /\ pc' = [pc EXCEPT ![i] = "done"]
                  /\ UNCHANGED <<records, rec, created, emitIdx>>
    /\ UNCHANGED <<hasFile, rows, thisBound, storeMode, nextRow, processed,
                   response, activities, nextId, errorLog, adds, addResponse, reply, other,
                   user, clock, logins, loginResponse>>

\* createSuspiciousActivity resumes after `await activity.save()` of the
\* current reason: the next iteration, the end of the loop, or its catch
\* block, which logs the error and returns.
EventSettled(i) ==
    /\ i \in RowIds
    /\ pc[i] = "emitting"
    /\ \E writeOk \in WriteOutcomes(storeMode) :
         IF writeOk
         THEN /\ activities' = activities \cup {NewSuspiciousActivity(rec[i], emitIdx[i])}
              /\ IF emitIdx[i] < Len(rec[i].suspiciousReasons)
                 THEN /\ emitIdx' = [emitIdx EXCEPT ![i] = emitIdx[i] + 1]
                      /\ UNCHANGED pc
                 ELSE /\ pc' = [pc EXCEPT ![i] = "done"]
                      /\ UNCHANGED emitIdx
              /\ UNCHANGED errorLog
         ELSE /\ errorLog' = errorLog \cup {[at |-> "createSuspiciousActivity", record |-> rec[i]._id]}
              /\ pc' = [pc EXCEPT ![i] = "done"]
              /\ UNCHANGED <<activities, emitIdx>>
    /\ UNCHANGED <<hasFile, rows, thisBound, storeMode, nextRow, rec, processed,
                   created, errors, response, records, nextId, adds, addResponse, reply, other,
                   user, clock, logins, loginResponse>>

\* errors.slice(0, 10)
ErrorPreview(list) == SubSeq(list, 1, IF Len(list) < 10 THEN Len(list) ELSE 10)

\* The 'end' handler: the parser has emitted every row; the summary is built
\* from the counters as they are now.
End ==
    /\ hasFile
    /\ nextRow > Len(rows)
    /\ response = NoResponse
    /\ response' = [status |-> 200, success |-> TRUE,
                    processed |-> processed, created |-> created,
                    errors |-> Len(errors), errorDetails |-> ErrorPreview(errors)]
    /\ UNCHANGED <<hasFile, rows, thisBound, storeMode, nextRow, pc, rec, emitIdx,
                   processed, created, errors, records, activities, nextId, errorLog,
                   adds, addResponse, reply, other,
                   user, clock, logins, loginResponse>>

---------------------------------------------------------------------------
(* POST /records *)

\* One request through validationMiddleware and addRecord. The router calls
\* the handler as a plain function, so `this` is undefined in it and the call
\* this.createSuspiciousActivity(record) of a suspicious record throws a
\* TypeError after the record has been saved; the catch block answers 500.
AddRecord(body) ==
    /\ adds < MaxAdds
    /\ adds' = adds + 1
    /\ IF BodyErrors(body) # {}
       THEN /\ addResponse' = [status |-> 400, success |-> FALSE, id |-> 0]
            /\ UNCHANGED <<records, nextId, errorLog>>
       ELSE \E writeOk \in WriteOutcomes(storeMode) :
              LET record == NewIPDR(BodyToRecordData(body), nextId)
                  result == SaveResult(record, writeOk)
                  saved == PreSave(record)
              IN  /\ nextId' = nextId + 1
                  /\ IF result # "ok"
                     THEN /\ addResponse' = [status |-> 500, success |-> FALSE, id |-> record._id]
                          /\ errorLog' = errorLog \cup {[at |-> "addRecord", record |-> record._id]}
                          /\ UNCHANGED records
                     ELSE /\ records' = records \cup {saved}
                          /\ IF saved.suspicious
                             THEN /\ addResponse' = [status |-> 500, success |-> FALSE, id |-> record._id]
                                  /\ errorLog' = errorLog \cup {[at |-> "addRecord", record |-> record._id]}
                             ELSE /\ addResponse' = [status |-> 201, success |-> TRUE, id |-> record._id]
                                  /\ UNCHANGED errorLog
    /\ UNCHANGED <<hasFile, rows, thisBound, storeMode, nextRow, pc, rec, emitIdx,
                   processed, created, errors, response, activities, reply, other,
                   user, clock, logins, loginResponse>>

Next ==
    \/ UploadNoFile
    \/ \E i \in RowIds : Data(i)
    \/ \E i \in RowIds : SaveSettled(i)
    \/ \E i \in RowIds : EventSettled(i)
    \/ End

Spec == Init /\ [][Next]_vars

\* The single-record endpoint on its own: no upload is in progress.
InitAdd ==
    /\ Init
    /\ ~hasFile
    /\ ~thisBound

NextAdd == \E body \in BodySamples \cup GridBodies : AddRecord(body)

SpecAdd == InitAdd /\ [][NextAdd]_vars

\* Both ingestion paths side by side, with the store up: an upload of
\* suspicious rows called as a method, and single-record requests whose
\* callers supply derived fields of their own.
InitIngest ==
    /\ Init
    /\ hasFile
    /\ thisBound
    /\ storeMode = "up"
    /\ \A i \in RowIds : rows[i] = RowAllRules

NextIngest ==
    \/ \E i \in RowIds : Data(i)
    \/ \E i \in RowIds : SaveSettled(i)
    \/ \E i \in RowIds : EventSettled(i)
    \/ End
    \/ AddRecord(BodySupplied)

SpecIngest == InitIngest /\ [][NextIngest]_vars

\* An upload, called as a method with the store up, of a file that mixes
\* rule-breaking rows with a harmless and a suspicious row.
InitValidate ==
    /\ hasFile = TRUE
    /\ rows \in UNION {[1..n -> RowRejects \cup {RowBenign, RowAllRules}] : n \in 0..BatchLen}
    /\ thisBound = TRUE
    /\ storeMode = "up"
    /\ nextRow = 1
    /\ pc = [i \in RowIds |-> "waiting"]
    /\ rec = [i \in RowIds |-> NoDoc]
    /\ emitIdx = [i \in RowIds |-> 0]
    /\ processed = 0
    /\ created = 0
    /\ errors = <<>>
    /\ response = NoResponse
    /\ records = {}
    /\ activities = {}
    /\ nextId = 1
    /\ errorLog = {}
    /\ adds = 0
    /\ addResponse = NoResponse
    /\ reply = NoReply
    /\ other = NoCall
    /\ NoLogins

NextValidate ==
    \/ \E i \in RowIds : Data(i)
    \/ \E i \in RowIds : SaveSettled(i)
    \/ \E i \in RowIds : EventSettled(i)
    \/ End

SpecValidate == InitValidate /\ [][NextValidate]_vars

---------------------------------------------------------------------------
(* Two uploadRecords calls in progress *)

\* The locals of the uploadRecords call whose callbacks the actions above
\* run: req.file's rows, the parser's position, the handlers' positions and
\* locals, the counters, the failure list and the response.
Frame ==
    [rows |-> rows, nextRow |-> nextRow, pc |-> pc, rec |-> rec, emitIdx |-> emitIdx,
     processed |-> processed, created |-> created, errors |-> errors,
     response |-> response]

\* Two calls whose counter `processed` is one module-level variable.
Switch_SharedCounter ==
    /\ other # NoCall
    /\ other' = [Frame EXCEPT !.processed = other.processed]
    /\ rows' = other.rows
    /\ nextRow' = other.nextRow
    /\ pc' = other.pc
    /\ rec' = other.rec
    /\ emitIdx' = other.emitIdx
    /\ created' = other.created
    /\ errors' = other.errors
    /\ response' = other.response
    /\ UNCHANGED <<hasFile, thisBound, storeMode, processed, records, activities, nextId,
                   errorLog, adds, addResponse, reply,
                   user, clock, logins, loginResponse>>

\* The event loop turns from the callbacks of one call to those of the
\* other: each call has its own locals, and the collections, the logger and
\* the source of ObjectIds are common to both.
Switch ==
    /\ other # NoCall
    /\ other' = Frame
    /\ rows' = other.rows
    /\ nextRow' = other.nextRow
    /\ pc' = other.pc
    /\ rec' = other.rec
    /\ emitIdx' = other.emitIdx
    /\ processed' = other.processed
    /\ created' = other.created
    /\ errors' = other.errors
    /\ response' = other.response
    /\ UNCHANGED <<hasFile, thisBound, storeMode, records, activities, nextId,
                   errorLog, adds, addResponse, reply,
                   user, clock, logins, loginResponse>>

\* Two uploads called as methods with the store up: a file of harmless and
\* malformed rows, and a one-row file whose row is suspicious or malformed.
InitBatches ==
    /\ hasFile = TRUE
    /\ rows \in UNION {[1..n -> {RowBenign, RowBadPort}] : n \in 1..BatchLen}
    /\ thisBound = TRUE
    /\ storeMode = "up"
    /\ nextRow = 1
    /\ pc = [i \in RowIds |-> "waiting"]
    /\ rec = [i \in RowIds |-> NoDoc]
    /\ emitIdx = [i \in RowIds |-> 0]
    /\ processed = 0
    /\ created = 0
    /\ errors = <<>>
    /\ response = NoResponse
    /\ records = {}
    /\ activities = {}
    /\ nextId = 1
    /\ errorLog = {}
    /\ adds = 0
    /\ addResponse = NoResponse
    /\ reply = NoReply
    /\ \E row \in {RowAllRules, RowBadPort} :
          other = [rows |-> <<row>>, nextRow |-> 1, pc |-> <<"waiting">>, rec |-> <<NoDoc>>,
                   emitIdx |-> <<0>>, processed |-> 0, created |-> 0, errors |-> <<>>,
                   response |-> NoResponse]
    /\ NoLogins

NextBatches ==
    \/ \E i \in RowIds : Data(i)
    \/ \E i \in RowIds : SaveSettled(i)
    \/ \E i \in RowIds : EventSettled(i)
    \/ End
    \/ Switch

SpecBatches == InitBatches /\ [][NextBatches]_vars

---------------------------------------------------------------------------
(* The stores the analytics queries run against *)

\* Subscriber numbers and destination addresses.
Phone(n) == Dec(98765) \o Dec(43210 + n)
Dest(n) == IP4(198, 51, 100, n)

\* The stored document of a one-minute session of 3 KiB, ingested when it
\* started.
Session(id, phone, dest, start, cell) ==
    LET body == [AsBody(RowBenign) EXCEPT !.phoneNumber = phone,
                                          !.destIP = dest,
                                          !.startTime = Iso(start),
                                          !.endTime = Iso(start + 60000),
                                          !.originCellID = cell]
    IN  [PreSave(NewIPDR(BodyToRecordData(body), id)) EXCEPT !.createdAt = Num(start)]

\* A record store: the subject Phone(1) has f1 sessions with Dest(1) on day
\* 20 and f2 sessions with Dest(2) on day 21; for q in 1..n the subscriber
\* Phone(1 + q) has q sessions with Dest(1) on day 20, the first of them at
\* 23 o'clock; with extras, Phone(0) has a session with Dest(1) 32 days
\* before Now and Phone(20) has a session with Dest(2) on day 20, in a cell
\* whose identifier is the text "constructor".
StoreOf(f1, f2, n, extras) ==
    LET base == f1 + f2 + (n * (n + 1)) \div 2
    IN       {Session(k, Phone(1), Dest(1), At(20, 10, k), "CELL-1") : k \in 1..f1}
        \cup {Session(f1 + k, Phone(1), Dest(2), At(21, 10, k), "CELL-1") : k \in 1..f2}
        \cup UNION {{Session(f1 + f2 + (q * (q - 1)) \div 2 + k, Phone(1 + q), Dest(1),
                              IF k = 1 THEN At(20, 23, q) ELSE At(20, 11, 10 * q + k),
                              "CELL-2") : k \in 1..q} : q \in 1..n}
        \cup (IF extras
              THEN {Session(base + 1, Phone(0), Dest(1), At(0 - 10, 10, 0), "CELL-2"),
                    Session(base + 2, Phone(20), Dest(2), At(20, 12, 0), "constructor")}
              ELSE {})

\* The events a bound upload writes for the records of a store, detected when
\* the record was ingested.
EventsOfStore(store) ==
    UNION {{[NewSuspiciousActivity(r, k) EXCEPT !.detectedAt = r.createdAt] :
               k \in 1..Len(r.suspiciousReasons)} : r \in store}

\* No upload and no POST /records request is in progress; the stores hold
\* what earlier ingestion left in them.
InitQuery ==
    /\ hasFile = FALSE
    /\ rows = <<>>
    /\ thisBound = FALSE
    /\ storeMode \in {"up", "down"}
    /\ nextRow = 1
    /\ pc = <<>>
    /\ rec = <<>>
    /\ emitIdx = <<>>
    /\ processed = 0
    /\ created = 0
    /\ errors = <<>>
    /\ response = NoResponse
    /\ \E f1 \in 0..MaxFreq, f2 \in 0..MaxSecond, n \in {0, MaxOthers}, extras \in BOOLEAN :
          records = StoreOf(f1, f2, n, extras)
    /\ activities = EventsOfStore(records)
    /\ nextId = Cardinality(records) + 1
    /\ errorLog = {}
    /\ adds = 0
    /\ addResponse = NoResponse
    /\ reply = NoReply
    /\ other = NoCall
    /\ NoLogins

---------------------------------------------------------------------------
(* AnalyticsController and getGeographicData *)

\* The answer of a catch block: status 500.
QueryFailed(query) == [query |-> query, status |-> 500, success |-> FALSE, asked |-> <<>>]

\* startDate = new Date(); startDate.setDate(startDate.getDate() - days)
StartDate(days) == (Now \div DayMs - days) * DayMs + (Now % DayMs)

\* $sum of a numeric field over a set of documents.
RECURSIVE SumField(_, _)
SumField(S, field) ==
    IF S = {} THEN 0
    ELSE LET x == CHOOSE x \in S : TRUE
         IN  x[field].val + SumField(S \ {x}, field)

\* $min and $max of startTime over a non-empty set of documents.
MinStart(S) == CHOOSE t \in {r.startTime.val : r \in S} : \A r \in S : t <= r.startTime.val
MaxStart(S) == CHOOSE t \in {r.startTime.val : r \in S} : \A r \in S : t >= r.startTime.val

\* A sort key is a sequence of one or two numbers, compared in this order.
KeyGeq(a, b) == a[1] > b[1] \/ (a[1] = b[1] /\ (Len(a) = 1 \/ a[2] >= b[2]))

\* $sort in descending order of key: every sequence of the elements of S in
\* which no element comes before one with a greater key. MongoDB does not
\* define the order of elements with equal keys.
RECURSIVE SortDesc(_, _)
SortDesc(S, key) ==
    IF S = {} THEN {<<>>}
    ELSE UNION {{<<m>> \o rest : rest \in SortDesc(S \ {m}, key)} :
                   m \in {x \in S : \A y \in S : KeyGeq(key[x], key[y])}}

\* The first n elements of an array.
Take(seq, n) == SubSeq(seq, 1, IF Len(seq) < n THEN Len(seq) ELSE n)

\* array.slice(0, n) of an array whose order MongoDB does not define, as the
\* set of its elements.
Slice(S, n) == IF Cardinality(S) <= n THEN {S} ELSE {B \in SUBSET S : Cardinality(B) = n}

\* getNetworkRelationships: the $match and $group stages.
Connections(phoneNumber) ==
    LET own == {r \in records : r.phoneNumber = phoneNumber}
    IN  {LET g == {r \in own : r.destIP = d}
         IN  [_id |-> d,
              frequency |-> Cardinality(g),
              totalDuration |-> SumField(g, "duration"),
              totalDataExchange |-> SumField(g, "totalVolume"),
              firstContact |-> MinStart(g),
              lastContact |-> MaxStart(g),
              suspicious |-> \E r \in g : r.suspicious] : d \in {r.destIP : r \in own}}

\* IPDR.distinct('phoneNumber', {destIP, phoneNumber: {$ne: phoneNumber}})
RelatedPhones(destIP, phoneNumber) ==
    {r.phoneNumber : r \in {x \in records : x.destIP = destIP /\ x.phoneNumber # phoneNumber}}

\* The strength tier with the upper threshold included in MEDIUM's range
\* moved by one.
Strength_HighFrom10(frequency) ==
    IF frequency >= 10 THEN "HIGH" ELSE IF frequency > 5 THEN "MEDIUM" ELSE "LOW"

\* conn.frequency > 10 ? 'HIGH' : conn.frequency > 5 ? 'MEDIUM' : 'LOW'
Strength(frequency) ==
    IF frequency > 10 THEN "HIGH" ELSE IF frequency > 5 THEN "MEDIUM" ELSE "LOW"

\* The object pushed to relationships for one connection.
Edge(conn, phoneNumber, bParties) ==
    [aParty |-> phoneNumber,
     destIP |-> conn._id,
     bParties |-> bParties,
     frequency |-> conn.frequency,
     totalDuration |-> conn.totalDuration,
     dataExchanged |-> conn.totalDataExchange,
     firstContact |-> conn.firstContact,
     lastContact |-> conn.lastContact,
     strength |-> Strength(conn.frequency),
     suspicious |-> conn.suspicious]

\* The arrays `relationships` the loop can build from the sorted and limited
\* connections.
Relationships(connections, phoneNumber) ==
    LET choices(conn) == {Edge(conn, phoneNumber, B) :
                             B \in Slice(RelatedPhones(conn._id, phoneNumber), 5)}
    IN  {e \in [1..Len(connections) ->
                   UNION {choices(connections[k]) : k \in 1..Len(connections)}] :
            \A k \in 1..Len(connections) : e[k] \in choices(connections[k])}

\* GET /relationships. An absent query parameter is the empty text. A limit
\* in the query string reaches the $limit stage as a string, which MongoDB
\* rejects; the default is the number 50. The handler reads phoneNumber,
\* depth and limit and no other parameter: a time window `days` in the
\* query string is kept in `asked` and has no part in the answer.
GetNetworkRelationships(phoneNumber, limit, days) ==
    /\ \E readOk \in WriteOutcomes(storeMode) :
          IF phoneNumber = <<>>
          THEN reply' = [query |-> "relationships", status |-> 400, success |-> FALSE,
                         asked |-> days]
          ELSE IF ~readOk \/ limit # <<>>
          THEN reply' = [QueryFailed("relationships") EXCEPT !.asked = days]
          ELSE \E sorted \in SortDesc(Connections(phoneNumber),
                                       [c \in Connections(phoneNumber) |-> <<c.frequency>>]) :
                 \E data \in Relationships(Take(sorted, 50), phoneNumber) :
                    reply' = [query |-> "relationships", status |-> 200, success |-> TRUE,
                              data |-> data, centerNode |-> phoneNumber,
                              asked |-> days]
    /\ UNCHANGED <<hasFile, rows, thisBound, storeMode, nextRow, pc, rec, emitIdx,
                   processed, created, errors, response, records, activities, nextId,
                   errorLog, adds, addResponse, other,
                   user, clock, logins, loginResponse>>

\* parseInt(text) || dflt
IntOr(text, dflt) ==
    LET n == ParseInt(text)
    IN  IF n.nan \/ n.val = 0 THEN dflt ELSE n.val

\* getTopCommunicators: the $match, $group and $project stages. riskScore is
\* in hundredths.
Communicators(days) ==
    LET window == {r \in records : r.startTime.val >= StartDate(days)}
    IN  {LET g == {r \in window : r.phoneNumber = p}
             suspiciousCount == Cardinality({r \in g : r.suspicious})
         IN  [phoneNumber |-> p,
              totalSessions |-> Cardinality(g),
              totalDataVolume |-> SumField(g, "totalVolume"),
              suspiciousCount |-> suspiciousCount,
              uniqueDestinations |-> Cardinality({r.destIP : r \in g}),
              accessTypes |-> {r.accessType : r \in g},
              firstSeen |-> MinStart(g),
              lastSeen |-> MaxStart(g),
              riskScore |-> suspiciousCount * 1000 + Cardinality(g)] :
            p \in {r.phoneNumber : r \in window}}

\* The sort key with its two fields in the other order.
TopKey_SessionsFirst(c) == <<c.totalSessions, c.riskScore>>

\* { $sort: { riskScore: -1, totalSessions: -1 } }
TopKey(c) == <<c.riskScore, c.totalSessions>>

\* GET /top-communicators. MongoDB rejects a $limit that is not positive.
GetTopCommunicators(limitText, daysText) ==
    /\ \E readOk \in WriteOutcomes(storeMode) :
          LET limit == IntOr(limitText, 10)
              days == IntOr(daysText, 30)
              groups == Communicators(days)
          IN  IF ~readOk \/ limit < 0
              THEN reply' = [QueryFailed("topCommunicators") EXCEPT !.asked = limitText]
              ELSE \E sorted \in SortDesc(groups, [c \in groups |-> TopKey(c)]) :
                     reply' = [query |-> "topCommunicators", status |-> 200,
                               success |-> TRUE, data |-> Take(sorted, limit),
                               limit |-> limit, days |-> days]
    /\ UNCHANGED <<hasFile, rows, thisBound, storeMode, nextRow, pc, rec, emitIdx,
                   processed, created, errors, response, records, activities, nextId,
                   errorLog, adds, addResponse, other,
                   user, clock, logins, loginResponse>>

\* (x / unit).toFixed(2) for x >= 0.
Fixed2(x, unit) ==
    LET h == (x * 100 + unit \div 2) \div unit
    IN  Dec(h \div 100) \o <<".", DigitChar((h \div 10) % 10), DigitChar(h % 10)>>

\* formatDataVolume
formatDataVolume(bytes) ==
    IF bytes > 1000000000 THEN Fixed2(bytes \div 10000, 100000) \o <<" ", "G", "B">>
    ELSE IF bytes > 1000000 THEN Fixed2(bytes \div 100, 10000) \o <<" ", "M", "B">>
    ELSE IF bytes > 1000 THEN Fixed2(bytes, 1000) \o <<" ", "K", "B">>
    ELSE Dec(bytes) \o <<" ", "B">>

\* The object `stats` of getDashboardStats for the records created and the
\* events detected since startDate. No modelled handler creates an
\* Investigation, so the count of active investigations is 0.
DashboardStats(window, events, recent, label) ==
    LET uniqueIPs == IF window = {} THEN <<>>
                     ELSE <<[privateIPs |-> {r.privateIP : r \in window},
                             publicIPs |-> {r.publicIP : r \in window},
                             destIPs |-> {r.destIP : r \in window}]>>
        allIPs == IF Len(uniqueIPs) > 0
                  THEN uniqueIPs[1].privateIPs \cup uniqueIPs[1].publicIPs
                           \cup uniqueIPs[1].destIPs
                  ELSE {}
    IN  [totalRecords |-> Cardinality(window),
         uniquePhoneNumbers |-> Cardinality({r.phoneNumber : r \in window}),
         uniqueIPs |-> Cardinality(allIPs),
         totalDataVolume |-> formatDataVolume(SumField(window, "totalVolume")),
         suspiciousActivities |-> Cardinality({a \in events : a.status # "RESOLVED"}),
         activeInvestigations |-> 0,
         accessTypeBreakdown |->
             [t \in {r.accessType : r \in window} |->
                 Cardinality({r \in window : r.accessType = t})],
         recentActivity |->
             [k \in 1..Len(recent) |->
                 [phoneNumber |-> recent[k].phoneNumber,
                  timestamp |-> recent[k].startTime,
                  accessType |-> recent[k].accessType,
                  suspicious |-> recent[k].suspicious]],
         dateRange |-> label]

\* getDashboardStats that marks the records of its window as under
\* investigation while it counts them.
GetDashboardStats_Marking(dateRange) ==
    LET days == IF dateRange = <<>> THEN 30 ELSE ParseInt(dateRange).val
        window == {r \in records : r.createdAt.val >= StartDate(days)}
        events == {a \in activities : a.detectedAt.val >= StartDate(days)}
    IN  /\ reply' = [query |-> "dashboard", status |-> 200, success |-> TRUE,
                      data |-> DashboardStats(window, events, <<>>,
                                              Dec(days) \o <<" ", "d", "a", "y", "s">>)]
        /\ records' = (records \ window) \cup {[r EXCEPT !.suspicious = TRUE] : r \in window}
        /\ UNCHANGED <<hasFile, rows, thisBound, storeMode, nextRow, pc, rec, emitIdx,
                       processed, created, errors, response, activities, nextId,
                       errorLog, adds, addResponse, other,
                   user, clock, logins, loginResponse>>

\* getDashboardStats reading uniqueIPs[0] without the test of
\* uniqueIPs.length, which throws when no record is in the window.
GetDashboardStats_NoGuard(dateRange) ==
    /\ \E readOk \in WriteOutcomes(storeMode) :
          LET days == IF dateRange = <<>> THEN 30 ELSE ParseInt(dateRange).val
              window == {r \in records : r.createdAt.val >= StartDate(days)}
              events == {a \in activities : a.detectedAt.val >= StartDate(days)}
          IN  IF ~readOk \/ window = {}
              THEN reply' = QueryFailed("dashboard")
              ELSE \E sorted \in SortDesc(window, [r \in window |-> <<r.createdAt.val>>]) :
                     reply' = [query |-> "dashboard", status |-> 200, success |-> TRUE,
                               data |-> DashboardStats(window, events, Take(sorted, 10),
                                                       Dec(days) \o <<" ", "d", "a", "y", "s">>)]
    /\ UNCHANGED <<hasFile, rows, thisBound, storeMode, nextRow, pc, rec, emitIdx,
                   processed, created, errors, response, records, activities, nextId,
                   errorLog, adds, addResponse, other,
                   user, clock, logins, loginResponse>>

\* GET /dashboard. dateRange is the text of a whole number of days, or
\* absent.
GetDashboardStats(dateRange) ==
    /\ \E readOk \in WriteOutcomes(storeMode) :
          LET days == IF dateRange = <<>> THEN 30 ELSE ParseInt(dateRange).val
              window == {r \in records : r.createdAt.val >= StartDate(days)}
              events == {a \in activities : a.detectedAt.val >= StartDate(days)}
          IN  IF ~readOk
              THEN reply' = QueryFailed("dashboard")
              ELSE \E sorted \in SortDesc(window, [r \in window |-> <<r.createdAt.val>>]) :
                     reply' = [query |-> "dashboard", status |-> 200, success |-> TRUE,
                               data |-> DashboardStats(window, events, Take(sorted, 10),
                                                       Dec(days) \o <<" ", "d", "a", "y", "s">>)]
    /\ UNCHANGED <<hasFile, rows, thisBound, storeMode, nextRow, pc, rec, emitIdx,
                   processed, created, errors, response, records, activities, nextId,
                   errorLog, adds, addResponse, other,
                   user, clock, logins, loginResponse>>

\* $year, $month, $dayOfMonth, $week and $hour of a date between December
\* 1969 and January 1970 (day 0 is 1 January 1970, a Thursday; weeks start
\* on Sunday and the days before the first Sunday of a year are in week 0).
Calendar(t) ==
    LET d == t \div DayMs
    IN  IF d >= 0
        THEN [year |-> 1970, month |-> 1, day |-> d + 1, week |-> (d + 4) \div 7,
              hour |-> GetHours(t)]
        ELSE [year |-> 1969, month |-> 12, day |-> d + 32, week |-> (d + 368) \div 7,
              hour |-> GetHours(t)]

\* The _id of the $group stage of getActivityTrends.
GroupBy(period, t) ==
    LET c == Calendar(t)
    IN  CASE period = "hourly" ->
               [year |-> c.year, month |-> c.month, day |-> c.day, hour |-> c.hour]
          [] period = "daily" -> [year |-> c.year, month |-> c.month, day |-> c.day]
          [] period = "weekly" -> [year |-> c.year, week |-> c.week]
          [] OTHER -> [year |-> c.year, month |-> c.month]

\* GET /trends. The groups are sorted by _id in ascending order, which is
\* the order of their earliest session.
GetActivityTrends(period, daysText) ==
    /\ \E readOk \in WriteOutcomes(storeMode) :
          LET days == IF daysText = <<>> THEN 30 ELSE ParseInt(daysText).val
              window == {r \in records : r.startTime.val >= StartDate(days)}
              groups == {LET g == {r \in window : GroupBy(period, r.startTime.val) = id}
                         IN  [_id |-> id,
                              count |-> Cardinality(g),
                              dataVolume |-> SumField(g, "totalVolume"),
                              suspiciousCount |-> Cardinality({r \in g : r.suspicious}),
                              first |-> MinStart(g)] :
                            id \in {GroupBy(period, r.startTime.val) : r \in window}}
          IN  IF ~readOk
              THEN reply' = QueryFailed("trends")
              ELSE \E sorted \in SortDesc(groups, [g \in groups |-> <<0 - g.first>>]) :
                     reply' = [query |-> "trends", status |-> 200, success |-> TRUE,
                               data |-> [k \in 1..Len(sorted) |->
                                           [_id |-> sorted[k]._id,
                                            count |-> sorted[k].count,
                                            dataVolume |-> sorted[k].dataVolume,
                                            suspiciousCount |-> sorted[k].suspiciousCount]],
                               period |-> period, days |-> days]
    /\ UNCHANGED <<hasFile, rows, thisBound, storeMode, nextRow, pc, rec, emitIdx,
                   processed, created, errors, response, records, activities, nextId,
                   errorLog, adds, addResponse, other,
                   user, clock, logins, loginResponse>>

\* $sum and $avg of riskScore over a non-empty set of events; the average
\* is in hundredths.
RECURSIVE SumRisk(_)
SumRisk(S) ==
    IF S = {} THEN 0
    ELSE LET x == CHOOSE x \in S : TRUE IN x.riskScore + SumRisk(S \ {x})
AvgRisk(S) == (SumRisk(S) * 100) \div Cardinality(S)

\* GET /suspicious-analytics. The arrays MongoDB returns in no defined order
\* are sets here; topTargets, sorted and limited to 10, is the set of its
\* elements. $max of severity is the greatest string in alphabetical order.
GetSuspiciousAnalytics(daysText) ==
    /\ \E readOk \in WriteOutcomes(storeMode) :
          LET days == IntOr(daysText, 30)
              events == {a \in activities : a.detectedAt.val >= StartDate(days)}
              rank == [CRITICAL |-> 1, HIGH |-> 2, LOW |-> 3, MEDIUM |-> 4]
              types == {LET g == {a \in events : a.type = t}
                        IN  [_id |-> t, count |-> Cardinality(g), avgRiskScore |-> AvgRisk(g)] :
                           t \in {a.type : a \in events}}
              targets == {LET g == {a \in events : a.phoneNumber = p}
                          IN  [_id |-> p,
                               count |-> Cardinality(g),
                               avgRiskScore |-> AvgRisk(g),
                               types |-> {a.type : a \in g},
                               maxSeverity |-> CHOOSE v \in {a.severity : a \in g} :
                                                 \A a \in g : rank[v] >= rank[a.severity]] :
                             p \in {a.phoneNumber : a \in events}}
          IN  IF ~readOk
              THEN reply' = QueryFailed("suspicious")
              ELSE \E sorted \in SortDesc(types, [g \in types |-> <<g.count>>]) :
                   \E top \in {B \in Slice(targets, 10) :
                                 \A x \in B, y \in targets \ B :
                                     KeyGeq(<<x.count, x.avgRiskScore>>,
                                            <<y.count, y.avgRiskScore>>)} :
                     reply' = [query |-> "suspicious", status |-> 200, success |-> TRUE,
                               data |-> [typeBreakdown |-> sorted,
                                         severityBreakdown |->
                                             [v \in {a.severity : a \in events} |->
                                                 Cardinality({a \in events : a.severity = v})],
                                         statusBreakdown |->
                                             [v \in {a.status : a \in events} |->
                                                 Cardinality({a \in events : a.status = v})],
                                         trendData |->
                                             [v \in {GroupBy("daily", a.detectedAt.val) : a \in events} |->
                                                 Cardinality({a \in events :
                                                     GroupBy("daily", a.detectedAt.val) = v})],
                                         topTargets |-> top],
                               period |-> Dec(days) \o <<" ", "d", "a", "y", "s">>]
    /\ UNCHANGED <<hasFile, rows, thisBound, storeMode, nextRow, pc, rec, emitIdx,
                   processed, created, errors, response, records, activities, nextId,
                   errorLog, adds, addResponse, other,
                   user, clock, logins, loginResponse>>

\* Request bodies of getGeographicData: no filter, a date range, a box.
NoFilter == [hasRange |-> FALSE, hasBounds |-> FALSE]
GeoFilters ==
    {NoFilter,
     [hasRange |-> TRUE, hasBounds |-> FALSE, start |-> At(20, 0, 0), end |-> At(21, 0, 0)],
     [hasRange |-> FALSE, hasBounds |-> TRUE,
      southwest |-> [lng |-> 770, lat |-> 280], northeast |-> [lng |-> 780, lat |-> 290]],
     [hasRange |-> FALSE, hasBounds |-> TRUE,
      southwest |-> [lng |-> 0, lat |-> 0], northeast |-> [lng |-> 10, lat |-> 10]]}

\* The property names every object literal inherits from Object.prototype.
InheritedKeys ==
    {"constructor", "__proto__", "hasOwnProperty", "isPrototypeOf",
     "propertyIsEnumerable", "toLocaleString", "toString", "valueOf",
     "__defineGetter__", "__defineSetter__", "__lookupGetter__", "__lookupSetter__"}

\* IPDRController.getGeographicData. The records come in no defined order,
\* so the point of a cell has the coordinates of any one of its records;
\* `points` is the set of the elements of the array. cellGroups is an object
\* literal indexed by originCellID: for a cell named like an inherited
\* property, cellGroups[cell] is that property, no cluster is created, and
\* the read of its accessTypes throws a TypeError, which the catch block
\* answers with 500.
GetGeographicData(body) ==
    /\ \E readOk \in WriteOutcomes(storeMode) :
          LET matching ==
                  {r \in records :
                      /\ body.hasRange => /\ r.startTime.val >= body.start
                                          /\ r.startTime.val <= body.end
                      /\ body.hasBounds =>
                            /\ r.coordinates[1].val >= body.southwest.lng
                            /\ r.coordinates[1].val <= body.northeast.lng
                            /\ r.coordinates[2].val >= body.southwest.lat
                            /\ r.coordinates[2].val <= body.northeast.lat}
          IN  IF ~readOk
              THEN reply' = QueryFailed("geographic")
              ELSE \E found \in Slice(matching, 5000) :
                   IF \E r \in found : r.originCellID \in InheritedKeys
                   THEN reply' = QueryFailed("geographic")
                   ELSE
                   \E first \in {f \in [{r.originCellID : r \in found} -> found] :
                                    \A c \in DOMAIN f : f[c].originCellID = c} :
                     reply' =
                       [query |-> "geographic", status |-> 200, success |-> TRUE,
                        data |->
                          [points |->
                             {LET g == {r \in found : r.originCellID = c}
                              IN  [cellID |-> c,
                                   lat |-> first[c].originLat,
                                   lng |-> first[c].originLong,
                                   count |-> Cardinality(g),
                                   suspicious |-> Cardinality({r \in g : r.suspicious}),
                                   accessTypes |->
                                       [t \in {r.accessType : r \in g} |->
                                           Cardinality({r \in g : r.accessType = t})]] :
                                c \in DOMAIN first},
                           totalRecords |-> Cardinality(found)],
                        asked |-> body]
    /\ UNCHANGED <<hasFile, rows, thisBound, storeMode, nextRow, pc, rec, emitIdx,
                   processed, created, errors, response, records, activities, nextId,
                   errorLog, adds, addResponse, other,
                   user, clock, logins, loginResponse>>

---------------------------------------------------------------------------
(* The case workflow and the live system *)

\* SuspiciousActivity.resolve that sets the status alone.
Resolve_StatusOnly(id, resolution, userId) ==
    /\ \E a \in activities :
          /\ a._id = id
          /\ Cardinality({b \in activities : b.status = "RESOLVED"} \cup {a}) <= MaxResolves
          /\ \E writeOk \in WriteOutcomes(storeMode) :
                IF writeOk
                THEN activities' = (activities \ {a}) \cup {[a EXCEPT !.status = "RESOLVED"]}
                ELSE UNCHANGED activities
    /\ UNCHANGED <<hasFile, rows, thisBound, storeMode, nextRow, pc, rec, emitIdx,
                   processed, created, errors, response, records, nextId, errorLog,
                   adds, addResponse, reply, other,
                   user, clock, logins, loginResponse>>

\* SuspiciousActivity.resolve called by the case workflow on the event with
\* the given _id, followed by its save().
Resolve(id, resolution, userId) ==
    /\ \E a \in activities :
          /\ a._id = id
          /\ Cardinality({b \in activities : b.status = "RESOLVED"} \cup {a}) <= MaxResolves
          /\ \E writeOk \in WriteOutcomes(storeMode) :
                IF writeOk
                THEN activities' =
                         (activities \ {a}) \cup
                         {[resolvedAt |-> Num(Now), resolvedBy |-> userId,
                           resolution |-> resolution, status |-> "RESOLVED"] @@ a}
                ELSE UNCHANGED activities
    /\ UNCHANGED <<hasFile, rows, thisBound, storeMode, nextRow, pc, rec, emitIdx,
                   processed, created, errors, response, records, nextId, errorLog,
                   adds, addResponse, reply, other,
                   user, clock, logins, loginResponse>>

\* An upload in progress while the six queries are asked, in any order and
\* any number of times, and the case workflow resolves events.
NextLive ==
    \/ \E i \in RowIds : Data(i)
    \/ \E i \in RowIds : SaveSettled(i)
    \/ \E i \in RowIds : EventSettled(i)
    \/ End
    \/ GetDashboardStats(<<>>)
    \/ GetActivityTrends("daily", <<>>)
    \/ GetTopCommunicators(<<>>, <<>>)
    \/ GetSuspiciousAnalytics(<<>>)
    \/ GetGeographicData(NoFilter)
    \/ GetNetworkRelationships(Phone(0), <<>>, <<>>)
    \/ \E a \in activities, resolution \in {"confirmed", "dismissed"} :
          Resolve(a._id, resolution, 1)

\* The upload is called as a method, with the store up, on a file of a
\* suspicious row followed by a harmless one.
InitLive ==
    /\ Init
    /\ hasFile
    /\ thisBound
    /\ storeMode = "up"
    /\ rows = <<RowAllRules, RowBenign>>

SpecLive == InitLive /\ [][NextLive]_vars

\* One analytics request per behaviour: the handlers keep nothing between
\* requests, so a later request would meet the same stores.
NextQuery ==
    /\ reply = NoReply
    /\ \/ \E q \in {<<<<>>, <<>>, <<>>>>, <<Phone(1), <<>>, <<>>>>, <<Phone(1), Dec(1), <<>>>>,
                      <<Phone(1), <<>>, Dec(30)>>, <<Phone(30), <<>>, <<>>>>} :
            GetNetworkRelationships(q[1], q[2], q[3])
       \/ \E q \in {<<<<>>, <<>>>>, <<Dec(1), <<>>>>, <<Dec(2), Dec(1)>>, <<Dec(0), <<>>>>,
                      <<<<"-">> \o Dec(1), <<>>>>} :
            GetTopCommunicators(q[1], q[2])
       \/ \E dateRange \in {<<>>, Dec(1)} : GetDashboardStats(dateRange)
       \/ \E q \in {<<"hourly", <<>>>>, <<"daily", <<>>>>, <<"daily", Dec(40)>>,
                      <<"weekly", <<>>>>, <<"monthly", Dec(1)>>} :
            GetActivityTrends(q[1], q[2])
       \/ \E daysText \in {<<>>, Dec(40)} : GetSuspiciousAnalytics(daysText)
       \/ \E body \in GeoFilters : GetGeographicData(body)

SpecQuery == InitQuery /\ [][NextQuery]_vars

---------------------------------------------------------------------------
(* POST /login *)

\* The schema default of loginAttempts, applied when a document without the
\* field is loaded.
Attempts(doc) == IF doc.loginAttempts = <<>> THEN 0 ELSE doc.loginAttempts[1]

\* UserSchema.virtual('isLocked')
isLocked(doc, now) == doc.lockUntil # <<>> /\ doc.lockUntil[1] > now

\* incrementLoginAttempts locking at six failures.
incrementLoginAttempts_LockAtSix(this, stored, now) ==
    IF this.lockUntil # <<>> /\ this.lockUntil[1] < now
    THEN [stored EXCEPT !.lockUntil = <<>>, !.loginAttempts = <<1>>]
    ELSE IF Attempts(this) + 1 >= 6 /\ ~isLocked(this, now)
    THEN [stored EXCEPT !.loginAttempts = <<Attempts(stored) + 1>>,
                        !.lockUntil = <<now + LockHours>>]
    ELSE [stored EXCEPT !.loginAttempts = <<Attempts(stored) + 1>>]

\* UserSchema.methods.incrementLoginAttempts: the update is computed from
\* the document `this` the request loaded and applied by updateOne to the
\* stored document; $inc of an absent field starts from 0.
incrementLoginAttempts(this, stored, now) ==
    IF this.lockUntil # <<>> /\ this.lockUntil[1] < now
    THEN [stored EXCEPT !.lockUntil = <<>>, !.loginAttempts = <<1>>]
    ELSE IF Attempts(this) + 1 >= 5 /\ ~isLocked(this, now)
    THEN [stored EXCEPT !.loginAttempts = <<Attempts(stored) + 1>>,
                        !.lockUntil = <<now + LockHours>>]
    ELSE [stored EXCEPT !.loginAttempts = <<Attempts(stored) + 1>>]

\* resetLoginAttempts that leaves lockUntil in place.
resetLoginAttempts_KeepLock(stored) == [stored EXCEPT !.loginAttempts = <<>>]

\* UserSchema.methods.resetLoginAttempts
resetLoginAttempts(stored) == [stored EXCEPT !.loginAttempts = <<>>, !.lockUntil = <<>>]

\* The kinds of request body: the password of the user, another password of
\* eight characters or more, a body the validation chain rejects, and the
\* email of nobody.
LoginKinds == {"correct", "wrong", "malformed", "unknown"}

\* validationMiddleware and AuthController.login up to `await
\* user.comparePassword(password)`: the answers 400, 401 for no active user
\* with that email and 423 for a locked account, or the call of bcrypt.
LoginBegin(kind) ==
    /\ Len(logins) < MaxLogins
    /\ IF kind = "malformed" \/ kind = "unknown" \/ ~user.isActive \/ isLocked(user, clock)
       THEN /\ logins' = Append(logins, [pc |-> "done"])
            /\ loginResponse' =
                  [id |-> Len(logins) + 1, kind |-> kind,
                   status |-> IF kind = "malformed" THEN 400
                              ELSE IF kind = "unknown" \/ ~user.isActive THEN 401
                              ELSE 423,
                   success |-> FALSE, token |-> FALSE]
       ELSE /\ logins' = Append(logins, [pc |-> "comparing", user |-> user,
                                          isMatch |-> kind = "correct"])
            /\ UNCHANGED loginResponse
    /\ UNCHANGED <<hasFile, rows, thisBound, storeMode, nextRow, pc, rec, emitIdx,
                   processed, created, errors, response, records, activities, nextId,
                   errorLog, adds, addResponse, reply, other, user, clock>>

\* AuthController.login after bcrypt has answered: for a wrong password the
\* update of incrementLoginAttempts and 401; for the right one the update of
\* resetLoginAttempts when the loaded document counts failures, the save of
\* lastLogin, the token and 200.
LoginSettle(k) ==
    /\ k \in 1..Len(logins)
    /\ logins[k].pc = "comparing"
    /\ logins' = [logins EXCEPT ![k].pc = "done"]
    /\ IF ~logins[k].isMatch
       THEN /\ user' = incrementLoginAttempts(logins[k].user, user, clock)
            /\ loginResponse' = [id |-> k, kind |-> "wrong", status |-> 401,
                                  success |-> FALSE, token |-> FALSE]
       ELSE /\ user' = IF Attempts(logins[k].user) > 0 THEN resetLoginAttempts(user)
                        ELSE user
            /\ loginResponse' = [id |-> k, kind |-> "correct", status |-> 200,
                                  success |-> TRUE, token |-> TRUE]
    /\ UNCHANGED <<hasFile, rows, thisBound, storeMode, nextRow, pc, rec, emitIdx,
                   processed, created, errors, response, records, activities, nextId,
                   errorLog, adds, addResponse, reply, other, clock>>

\* An hour passes.
Tick ==
    /\ clock < MaxClock
    /\ clock' = clock + 1
    /\ UNCHANGED <<hasFile, rows, thisBound, storeMode, nextRow, pc, rec, emitIdx,
                   processed, created, errors, response, records, activities, nextId,
                   errorLog, adds, addResponse, reply, other, user, logins,
                   loginResponse>>

\* No ingestion and no query is in progress; the user is active or has been
\* deactivated, and the store is up.
InitLogin ==
    /\ hasFile = FALSE
    /\ rows = <<>>
    /\ thisBound = FALSE
    /\ storeMode = "up"
    /\ nextRow = 1
    /\ pc = <<>>
    /\ rec = <<>>
    /\ emitIdx = <<>>
    /\ processed = 0
    /\ created = 0
    /\ errors = <<>>
    /\ response = NoResponse
    /\ records = {}
    /\ activities = {}
    /\ nextId = 1
    /\ errorLog = {}
    /\ adds = 0
    /\ addResponse = NoResponse
    /\ reply = NoReply
    /\ other = NoCall
    /\ user \in {[isActive |-> a, loginAttempts |-> <<>>, lockUntil |-> <<>>] : a \in BOOLEAN}
    /\ clock = 0
    /\ logins = <<>>
    /\ loginResponse = NoResponse

\* Login requests processed one at a time: a request begins when every
\* earlier one has been answered.
NextLogin ==
    \/ \E kind \in LoginKinds :
          /\ \A k \in 1..Len(logins) : logins[k].pc = "done"
          /\ LoginBegin(kind)
    \/ \E k \in 1..Len(logins) : LoginSettle(k)
    \/ Tick

SpecLogin == InitLogin /\ [][NextLogin]_vars

\* Failed login requests of one user served concurrently: a request may
\* begin while earlier ones wait for bcrypt, and the waiting ones resume in
\* any order.
InFlight == {k \in 1..Len(logins) : logins[k].pc = "comparing"}

NextRace ==
    \/ /\ Cardinality(InFlight) < MaxInFlight
       /\ LoginBegin("wrong")
    \/ \E k \in 1..Len(logins) : LoginSettle(k)
    \/ Tick

SpecRace == InitLogin /\ [][NextRace]_vars

---------------------------------------------------------------------------
(* Properties of uploadRecords *)

\* Row i of the file passes the schema's casting and validation.
RowValid(i) == ValidationErrors(NewIPDR(RowToRecordData(rows[i]), 0)) = {}

\* The classification the pre-save hook gives row i.
RowSuspicious(i) == PreSave(NewIPDR(RowToRecordData(rows[i]), 0)).suspicious

\* The document of row i's handler is in the IPDR collection.
Persisted(i) == \E r \in records : r._id = rec[i]._id

\* The failure list holds an entry for the row object of handler i.
Reported(i) == \E n \in 1..Len(errors) : errors[n].data = i

\* Every row has been emitted and every handler has run to its end.
AllSettled == hasFile /\ nextRow > Len(rows) /\ \A i \in RowIds : pc[i] = "done"

\* The events createSuspiciousActivity wrote for the record of row i.
EventsOf(i) == {a \in activities : a.ipdrRecords = <<rec[i]._id>>}

\* Event emission for row i is over: every reason has its event, or the
\* emission was dropped with a logged error.
EmissionOver(i) ==
    /\ pc[i] = "done"
    /\ \/ Cardinality(EventsOf(i)) = Len(rec[i].suspiciousReasons)
       \/ \E l \in errorLog : l.record = rec[i]._id

\* C1: a batch of N rows in which exactly row k is malformed yields the
\* summary processed = N, created = N - 1 and one failure entry whose row
\* index is k, and every other row is persisted.
C1_SingleBadRowSummary ==
    \A k \in RowIds :
        (/\ response.status = 200
         /\ storeMode = "up"
         /\ thisBound
         /\ ~RowValid(k)
         /\ \A j \in RowIds \ {k} : RowValid(j))
        => /\ response.processed = Len(rows)
           /\ response.created = Len(rows) - 1
           /\ response.errors = 1
           /\ response.errorDetails[1].row = k
           /\ \A j \in RowIds \ {k} : Persisted(j)

\* C2: row isolation. Once the handler of row i has run to its end, the row
\* is persisted only if it is valid and is in the failure list if it is not
\* persisted, with at most one entry; with the store up, the row is persisted
\* exactly if its own content is valid and is in the failure list exactly if
\* its own content is invalid (or, when the controller method is called
\* unbound, suspicious), whatever happened to the other rows. No response is
\* sent while a row has not been handed to its handler.
C2_RowIsolation ==
    /\ \A i \in RowIds :
         pc[i] = "done" =>
            /\ Persisted(i) => RowValid(i)
            /\ ~Persisted(i) => Reported(i)
            /\ Cardinality({n \in 1..Len(errors) : errors[n].data = i}) <= 1
            /\ storeMode = "up" =>
                 /\ Persisted(i) <=> RowValid(i)
                 /\ Reported(i) <=> (~RowValid(i) \/ (~thisBound /\ RowSuspicious(i)))
    /\ response.status = 200 => \A i \in RowIds : pc[i] # "waiting"

\* C2 witness: with the store up, a malformed row was reported and a later
\* row of the same batch was persisted.
C2_Witness ==
    /\ AllSettled
    /\ storeMode = "up"
    /\ \E i, j \in RowIds : i < j /\ Reported(i) /\ ~Persisted(i) /\ Persisted(j)

\* C3: every entry of the failure list carries the index of the row that
\* failed, whatever the completion order of the row handlers (stated for a
\* bound call with the store up, where only malformed rows fail).
C3_FailureIndexIsRow ==
    (thisBound /\ storeMode = "up")
        => \A n \in 1..Len(errors) : errors[n].row = errors[n].data

\* C4: a row is counted in `created` only once the event emission for its
\* record is over (complete, or dropped with a logged error); stated for a
\* bound call.
C4_CreatedAfterEmission ==
    thisBound => created <= Cardinality({i \in RowIds : Persisted(i) /\ EmissionOver(i)})

\* C5: when the store is unavailable for every write, the upload of a
\* non-empty file is answered with a fatal batch-level error, not with a
\* summary.
C5_SystemicFailureIsFatal ==
    (thisBound /\ storeMode = "down" /\ Len(rows) > 0 /\ response.status # 0)
        => (response.status = 500 /\ ~response.success)

\* C6: the summary's errors count is the number of rows of the batch that
\* were not persisted, and errorDetails holds the first min(10, errors)
\* failures (stated for a bound call with the store up, once every handler
\* has run to its end).
C6_SummaryCountsFailures ==
    (thisBound /\ storeMode = "up" /\ response.status = 200 /\ AllSettled)
        => /\ response.errors = Cardinality({i \in RowIds : ~Persisted(i)})
           /\ Len(response.errorDetails) = (IF response.errors < 10 THEN response.errors ELSE 10)
           /\ response.errorDetails = SubSeq(errors, 1, Len(response.errorDetails))

---------------------------------------------------------------------------
(* Properties of the persisted records *)

Tagged(r, reason) == \E k \in 1..Len(r.suspiciousReasons) : r.suspiciousReasons[k] = reason

NightHours == {22, 23} \cup (0..6)

\* C7: for every persisted record, suspicious is true exactly if
\* suspiciousReasons is not empty, and every reason code in it is one whose
\* condition holds for the record's own fields: night hour, totalVolume above
\* 10485760, duration below 30000.
C7_ReasonsMatchFields ==
    \A r \in records :
        /\ r.suspicious <=> Len(r.suspiciousReasons) > 0
        /\ \A k \in 1..Len(r.suspiciousReasons) :
             \/ /\ r.suspiciousReasons[k] = "HIGH_NIGHT_ACTIVITY"
                /\ GetHours(r.startTime.val) \in NightHours
             \/ /\ r.suspiciousReasons[k] = "UNUSUAL_DATA_VOLUME"
                /\ r.totalVolume.val > 10485760
             \/ /\ r.suspiciousReasons[k] = "SHORT_DURATION_FREQUENT"
                /\ r.duration.val < 30000

\* C7 witness: the store holds a record with three reasons and the record of
\* a caller that had sent suspicious = true with a reason of its own.
C7_Witness ==
    /\ \E r \in records : r.suspicious /\ Len(r.suspiciousReasons) = 3
    /\ \E r \in records : r.originCellID = "CELL-S" /\ ~r.suspicious

\* C8: every persisted record has totalVolume = uplinkVolume + downlinkVolume
\* and duration = endTime - startTime > 0, also when the caller supplied its
\* own totalVolume or duration.
C8_DerivedFieldsConsistent ==
    \A r \in records :
        /\ ~r.totalVolume.nan
        /\ r.totalVolume.val = r.uplinkVolume.val + r.downlinkVolume.val
        /\ ~r.duration.nan
        /\ r.duration.val = r.endTime.val - r.startTime.val
        /\ r.duration.val > 0

\* C8 witness: the record of the caller that had supplied totalVolume =
\* 99999999 and duration = 5 is persisted.
C8_Witness ==
    \E r \in records :
        r.originCellID = "CELL-S" /\ r.totalVolume.val = 3072 /\ r.duration.val = 60000

C10_VolumeRule ==
    \A r \in records :
        LET sum == r.uplinkVolume.val + r.downlinkVolume.val
        IN  /\ Tagged(r, "UNUSUAL_DATA_VOLUME") <=> sum > 10485760
            /\ sum = 10485761 => Tagged(r, "UNUSUAL_DATA_VOLUME")
            /\ sum = 10485760 => ~Tagged(r, "UNUSUAL_DATA_VOLUME")

\* C10 witness: a record of 10,485,761 bytes is stored with the tag and one
\* of 10,485,760 bytes without it.
C10_Witness ==
    /\ \E r \in records : r.uplinkVolume.val + r.downlinkVolume.val = 10485761
                          /\ Tagged(r, "UNUSUAL_DATA_VOLUME")
    /\ \E r \in records : r.uplinkVolume.val + r.downlinkVolume.val = 10485760
                          /\ ~Tagged(r, "UNUSUAL_DATA_VOLUME")

\* C11: a persisted record is tagged SHORT_DURATION_FREQUENT exactly if
\* endTime - startTime is less than 30,000 ms, whatever the other two rules
\* say of it: 29,999 ms is tagged and 30,000 ms is not.
C11_ShortDurationRule ==
    \A r \in records :
        LET length == r.endTime.val - r.startTime.val
        IN  /\ Tagged(r, "SHORT_DURATION_FREQUENT") <=> length < 30000
            /\ length = 29999 => Tagged(r, "SHORT_DURATION_FREQUENT")
            /\ length = 30000 => ~Tagged(r, "SHORT_DURATION_FREQUENT")

\* C11 witness: a record of 29,999 ms is stored with the duration tag as its
\* only tag, and a record of 30,000 ms is stored without it although the
\* volume rule fired for it.
C11_Witness ==
    /\ \E r \in records : /\ r.endTime.val - r.startTime.val = 29999
                          /\ r.suspiciousReasons = <<"SHORT_DURATION_FREQUENT">>
    /\ \E r \in records : /\ r.endTime.val - r.startTime.val = 30000
                          /\ r.suspiciousReasons = <<"UNUSUAL_DATA_VOLUME">>

---------------------------------------------------------------------------
(* Properties of the anomaly events *)

\* C12: every event written by ingestion has confidence 0.8 and riskScore =
\* weight(severity) x confidence with the weights LOW 25, MEDIUM 50, HIGH 75,
\* CRITICAL 100; its severity is MEDIUM for HIGH_NIGHT_ACTIVITY and HIGH for
\* UNUSUAL_DATA_VOLUME and SHORT_DURATION_FREQUENT, so riskScore is 40 or 60
\* and within 0..100; two events of equal severity and confidence have equal
\* riskScore. Confidence is in tenths.
C12_RiskScore ==
    LET weight == [LOW |-> 25, MEDIUM |-> 50, HIGH |-> 75, CRITICAL |-> 100]
    IN  /\ \A a \in activities :
             /\ a.confidence = 8
             /\ a.riskScore * 10 = weight[a.severity] * a.confidence
             /\ a.type = "HIGH_NIGHT_ACTIVITY"
                    => (a.severity = "MEDIUM" /\ a.riskScore = 40)
             /\ a.type \in {"UNUSUAL_DATA_VOLUME", "SHORT_DURATION_FREQUENT"}
                    => (a.severity = "HIGH" /\ a.riskScore = 60)
             /\ a.riskScore \in {40, 60}
             /\ a.riskScore >= 0 /\ a.riskScore <= 100
        /\ \A a, b \in activities :
             (a.severity = b.severity /\ a.confidence = b.confidence)
                 => a.riskScore = b.riskScore

\* C12 witness: events of the three types have been written, two of them of
\* equal severity.
C12_Witness ==
    /\ \E a \in activities : a.type = "HIGH_NIGHT_ACTIVITY" /\ a.riskScore = 40
    /\ \E a, b \in activities :
         /\ a.type = "UNUSUAL_DATA_VOLUME"
         /\ b.type = "SHORT_DURATION_FREQUENT"
         /\ a.riskScore = 60 /\ b.riskScore = 60

\* The events that reference record r.
EventsFor(r) == {a \in activities : a.ipdrRecords = <<r._id>>}

\* No handler is still working on record r.
HandlerDone(r) == \A i \in RowIds : rec[i]._id = r._id => pc[i] = "done"

\* C13: with the store accepting every write, once the handler of a
\* persisted record has run to its end there is exactly one event per reason
\* code of the record, referencing the record and carrying its phone number
\* (so none for a record without reasons); and no event ever carries a reason
\* code that its record does not have.
C13_OneEventPerReason ==
    /\ storeMode = "up" =>
          \A r \in records :
              HandlerDone(r) =>
                 /\ Cardinality(EventsFor(r)) = Len(r.suspiciousReasons)
                 /\ \A k \in 1..Len(r.suspiciousReasons) :
                       Cardinality({a \in EventsFor(r) :
                                      /\ a.type = r.suspiciousReasons[k]
                                      /\ a.phoneNumber = r.phoneNumber}) = 1
    /\ \A a \in activities :
          \E r \in records : a.ipdrRecords = <<r._id>> /\ Tagged(r, a.type)

\* C14: derived fields, classification, persistence and event emission
\* happen in this order. A step that writes an event finds the event's
\* record already persisted; a step that persists a record stores it with
\* derived fields computed from its own inputs and a classification that
\* follows from those fields (not from values the record carried before),
\* and with no event of it written yet.
C14_StepOrder ==
    [][/\ \A a \in activities' \ activities :
            \E r \in records : a.ipdrRecords = <<r._id>>
       /\ \A r \in records' \ records :
            LET sum == r.uplinkVolume.val + r.downlinkVolume.val
                length == r.endTime.val - r.startTime.val
            IN  /\ r.totalVolume = Num(sum)
                /\ r.duration = Num(length)
                /\ Tagged(r, "HIGH_NIGHT_ACTIVITY")
                      <=> GetHours(r.startTime.val) \in NightHours
                /\ Tagged(r, "UNUSUAL_DATA_VOLUME") <=> sum > 10485760
                /\ Tagged(r, "SHORT_DURATION_FREQUENT") <=> length < 30000
                /\ r.suspicious <=> Len(r.suspiciousReasons) > 0
                /\ \A a \in activities' : a.ipdrRecords # <<r._id>>]_vars

\* C14 witness: the three events of a record are in the store next to the
\* record of a caller that had supplied a duration of 5 ms and 99,999,999
\* bytes, stored as harmless.
C14_Witness ==
    /\ \E r \in records : Len(r.suspiciousReasons) = 3 /\ Cardinality(EventsFor(r)) = 3
    /\ \E r \in records : r.originCellID = "CELL-S" /\ r.suspiciousReasons = <<>>

---------------------------------------------------------------------------
(* Properties of the analytics queries *)

\* C15: in the answer of getNetworkRelationships the strength of an edge is
\* HIGH exactly if its frequency is above 10, MEDIUM exactly if it is above 5
\* and at most 10, LOW otherwise; the frequency of an edge is the number of
\* the subject's records with the edge's destination. Frequency 10 is
\* MEDIUM, 11 HIGH, 5 LOW, 6 MEDIUM.
C15_StrengthTiers ==
    (reply.query = "relationships" /\ reply.status = 200) =>
        \A k \in 1..Len(reply.data) :
            LET e == reply.data[k]
                n == Cardinality({r \in records : /\ r.phoneNumber = reply.centerNode
                                                  /\ r.destIP = e.destIP})
            IN  /\ e.frequency = n
                /\ e.strength = "HIGH" <=> n > 10
                /\ e.strength = "MEDIUM" <=> (5 < n /\ n <= 10)
                /\ e.strength = "LOW" <=> n <= 5
                /\ n = 10 => e.strength = "MEDIUM"
                /\ n = 11 => e.strength = "HIGH"
                /\ n = 5 => e.strength = "LOW"
                /\ n = 6 => e.strength = "MEDIUM"

\* C15 witness: the answer holds an edge of frequency 11 and strength HIGH.
C15_Witness ==
    /\ reply.query = "relationships"
    /\ reply.status = 200
    /\ \E k \in 1..Len(reply.data) :
          reply.data[k].frequency = 11 /\ reply.data[k].strength = "HIGH"

\* C16: the answer of getNetworkRelationships holds one edge per distinct
\* destination of the subject's records, in descending order of frequency,
\* and of two edges of equal frequency the one with the later lastContact
\* comes first.
C16_EdgeOrder ==
    (reply.query = "relationships" /\ reply.status = 200) =>
        LET dests == {r.destIP : r \in {x \in records : x.phoneNumber = reply.centerNode}}
        IN  /\ Len(reply.data) = Cardinality(dests)
            /\ {reply.data[k].destIP : k \in 1..Len(reply.data)} = dests
            /\ \A i, j \in 1..Len(reply.data) :
                  i < j =>
                     /\ reply.data[i].frequency >= reply.data[j].frequency
                     /\ reply.data[i].frequency = reply.data[j].frequency
                           => reply.data[i].lastContact >= reply.data[j].lastContact

\* C17: every edge in the answer of getNetworkRelationships has at most 5
\* bParties, each of them a subscriber other than the subject that has a
\* record with the edge's destination inside the time window of the request
\* (the trailing `days` days; any time when the request names no window).
C17_BPartiesInWindow ==
    (reply.query = "relationships" /\ reply.status = 200) =>
        \A k \in 1..Len(reply.data) :
            LET e == reply.data[k]
            IN  /\ Cardinality(e.bParties) <= 5
                /\ \A b \in e.bParties :
                      /\ b # reply.centerNode
                      /\ \E r \in records :
                            /\ r.phoneNumber = b
                            /\ r.destIP = e.destIP
                            /\ \/ reply.asked = <<>>
                               \/ r.startTime.val >= StartDate(ParseInt(reply.asked).val)

\* C18: the answer of getTopCommunicators holds at most `limit` subjects,
\* each with riskScore = suspiciousCount * 10 + totalSessions / 100 computed
\* over the subject's sessions in the window, in descending order of
\* riskScore and, for equal riskScore, of totalSessions; no subject left out
\* would sort before one that is listed; a subject with 3 sessions of which 1
\* is suspicious comes before a subject with 5 sessions and none suspicious.
\* riskScore is in hundredths.
C18_TopCommunicators ==
    (reply.query = "topCommunicators" /\ reply.status = 200) =>
        LET window == {r \in records : r.startTime.val >= StartDate(reply.days)}
            sessions(p) == Cardinality({r \in window : r.phoneNumber = p})
            flagged(p) == Cardinality({r \in window : r.phoneNumber = p /\ r.suspicious})
            score(p) == flagged(p) * 1000 + sessions(p)
            before(p, q) == \/ score(p) > score(q)
                            \/ score(p) = score(q) /\ sessions(p) >= sessions(q)
            listed == {reply.data[k].phoneNumber : k \in 1..Len(reply.data)}
        IN  /\ Len(reply.data) <= reply.limit
            /\ Cardinality(listed) = Len(reply.data)
            /\ \A k \in 1..Len(reply.data) :
                  LET c == reply.data[k]
                  IN  /\ c.totalSessions = sessions(c.phoneNumber)
                      /\ c.totalSessions > 0
                      /\ c.suspiciousCount = flagged(c.phoneNumber)
                      /\ c.riskScore = score(c.phoneNumber)
            /\ \A i, j \in 1..Len(reply.data) :
                  i < j => before(reply.data[i].phoneNumber, reply.data[j].phoneNumber)
            /\ \A p \in {r.phoneNumber : r \in window} \ listed :
                  /\ Len(reply.data) = reply.limit
                  /\ \A q \in listed : before(q, p)
            /\ \A i, j \in 1..Len(reply.data) :
                  (/\ reply.data[i].totalSessions = 3
                   /\ reply.data[i].suspiciousCount = 1
                   /\ reply.data[j].totalSessions = 5
                   /\ reply.data[j].suspiciousCount = 0) => i < j

\* C18 witness: an answer that lists a subject with 3 sessions, 1 of them
\* suspicious, ahead of a subject with 5 sessions, none suspicious.
C18_Witness ==
    /\ reply.query = "topCommunicators"
    /\ reply.status = 200
    /\ \E i, j \in 1..Len(reply.data) :
          /\ i < j
          /\ reply.data[i].totalSessions = 3 /\ reply.data[i].suspiciousCount = 1
          /\ reply.data[j].totalSessions = 5 /\ reply.data[j].suspiciousCount = 0

\* C19: against an empty record store and an empty event store, with the
\* store reachable, every aggregator query is answered with status 200 and
\* zero values: the dashboard with totalRecords = 0, uniquePhoneNumbers = 0,
\* uniqueIPs = 0, an empty access-type breakdown and an empty recent-activity
\* list; trends and top communicators with an empty list (a negative limit
\* aside, which MongoDB rejects whatever the store holds); the geographic
\* query with no point; the suspicious analytics with five empty breakdowns.
C19_EmptyStore ==
    (records = {} /\ activities = {} /\ storeMode = "up") =>
        /\ reply.query = "dashboard" =>
              /\ reply.status = 200
              /\ reply.data.totalRecords = 0
              /\ reply.data.uniquePhoneNumbers = 0
              /\ reply.data.uniqueIPs = 0
              /\ DOMAIN reply.data.accessTypeBreakdown = {}
              /\ reply.data.recentActivity = <<>>
              /\ reply.data.suspiciousActivities = 0
        /\ reply.query = "trends" => (reply.status = 200 /\ reply.data = <<>>)
        /\ reply.query = "topCommunicators" =>
              IF reply.status = 200 THEN reply.data = <<>>
              ELSE ParseInt(reply.asked).val < 0
        /\ reply.query = "geographic" =>
              /\ reply.status = 200
              /\ reply.data.points = {}
              /\ reply.data.totalRecords = 0
        /\ reply.query = "suspicious" =>
              /\ reply.status = 200
              /\ reply.data.typeBreakdown = <<>>
              /\ DOMAIN reply.data.severityBreakdown = {}
              /\ DOMAIN reply.data.statusBreakdown = {}
              /\ DOMAIN reply.data.trendData = {}
              /\ reply.data.topTargets = {}

\* C19 witness: the dashboard query has been answered against empty stores.
C19_Witness ==
    /\ records = {}
    /\ activities = {}
    /\ reply.query = "dashboard"
    /\ reply.status = 200
    /\ reply.data.totalRecords = 0

---------------------------------------------------------------------------
(* Saving a stored record again *)

\* C20: the pre-save hook is idempotent: run again on a stored record whose
\* input fields are as they were saved, it leaves totalVolume, duration, the
\* coordinates, suspicious and suspiciousReasons as they are; the reasons
\* are neither duplicated nor accumulated.
C20_ResaveIdempotent ==
    \A r \in records :
        LET again == PreSave(r)
        IN  /\ again.totalVolume = r.totalVolume
            /\ again.duration = r.duration
            /\ again.coordinates = r.coordinates
            /\ again.suspicious = r.suspicious
            /\ again.suspiciousReasons = r.suspiciousReasons

\* C20 witness: a record is stored with all three reasons, and a record is
\* stored whose derived fields replaced other values the caller supplied.
C20_Witness ==
    /\ \E r \in records : Len(r.suspiciousReasons) = 3
    /\ \E r \in records : /\ r.originCellID = BodySupplied.originCellID
                          /\ r.totalVolume # BodySupplied.totalVolume.num
                          /\ r.suspiciousReasons = <<>>

---------------------------------------------------------------------------
(* Validation *)

\* C21: no record that breaks a validation rule is persisted: every stored
\* record has its three ports in 1..65535, endTime after startTime, latitude
\* in [-90, 90], longitude in [-180, 180], non-negative uplink and downlink
\* volumes and an access type among 2G, 3G, 4G, 5G; a row that breaks one of
\* the rules has, once its handler has run to its end, an entry in the
\* failure list and no record in the store, and the step that settles its
\* save leaves the store as it was.
C21_InvalidNeverPersisted ==
    /\ \A r \in records :
          /\ \A p \in {r.privatePort, r.publicPort, r.destPort} :
                ~p.nan /\ p.val >= 1 /\ p.val <= 65535
          /\ ~r.startTime.nan /\ ~r.endTime.nan /\ r.endTime.val > r.startTime.val
          /\ ~r.originLat.nan /\ r.originLat.val >= -900 /\ r.originLat.val <= 900
          /\ ~r.originLong.nan /\ r.originLong.val >= -1800 /\ r.originLong.val <= 1800
          /\ ~r.uplinkVolume.nan /\ r.uplinkVolume.val >= 0
          /\ ~r.downlinkVolume.nan /\ r.downlinkVolume.val >= 0
          /\ r.accessType \in {"2G", "3G", "4G", "5G"}
    /\ \A i \in RowIds :
          rows[i] \in RowRejects =>
             /\ ~Persisted(i)
             /\ pc[i] = "done" =>
                   \E n \in 1..Len(errors) : /\ errors[n].data = i
                                              /\ errors[n].error = "ValidationError"
    /\ Cardinality(records) = Cardinality({i \in RowIds : rec[i] \in records})
    /\ \A i \in RowIds : rec[i] \in records => rows[i] \notin RowRejects

\* C21 witness: a rule-breaking row was reported, the row after it was
\* persisted, and the store holds that record alone.
C21_Witness ==
    /\ AllSettled
    /\ \E i, j \in RowIds :
          /\ i < j
          /\ rows[i] \in RowRejects
          /\ Reported(i)
          /\ Persisted(j)
    /\ Cardinality(records) = 1

---------------------------------------------------------------------------
(* Properties of the live system *)

\* C22: every anomaly event is created with status NEW, and the status of an
\* existing event changes only in a step of resolve: the step sets status
\* RESOLVED together with resolvedAt, resolvedBy and resolution, leaves the
\* other fields of the event alone, and is no step of the upload or of a
\* query (no record, counter, handler position or response changes).
C22_StatusLifecycle ==
    [][/\ \A b \in activities' :
             (\A a \in activities : a._id # b._id) => b.status = "NEW"
       /\ \A a \in activities : \A b \in activities' :
             (a._id = b._id /\ a.status # b.status) =>
                /\ b.status = "RESOLVED"
                /\ {"resolvedAt", "resolvedBy", "resolution"} \subseteq DOMAIN b
                /\ b.resolvedAt = Num(Now)
                /\ b.resolvedBy = 1
                /\ b.resolution \in {"confirmed", "dismissed"}
                /\ \A f \in DOMAIN a \ {"status", "resolvedAt", "resolvedBy", "resolution"} :
                      b[f] = a[f]
                /\ UNCHANGED <<records, pc, rec, emitIdx, processed, created, errors,
                               response, reply, nextRow>>]_vars

\* C22 witness: one event of a stored record is resolved, another event of
\* the same record is still NEW, and a query has been answered.
C22_Witness ==
    /\ reply.status = 200
    /\ \E a, b \in activities :
          /\ a.ipdrRecords = b.ipdrRecords
          /\ a.status = "RESOLVED"
          /\ a.resolution = "dismissed"
          /\ b.status = "NEW"

\* C26: the five aggregator queries and the relationship query are
\* read-only: a step that answers one of them, at any point of an upload in
\* progress and after any other query, leaves the stored records and the
\* stored events, with all their fields, as they were, and moves no handler
\* of the upload.
C26_QueriesReadOnly ==
    [][reply' # reply =>
          /\ reply'.query \in {"dashboard", "trends", "topCommunicators", "suspicious",
                                "geographic", "relationships"}
          /\ UNCHANGED <<records, activities, pc, rec, emitIdx, processed, created,
                         errors, response, nextId>>]_vars

\* C26 witness: the dashboard was answered while the suspicious row's events
\* were being written and the second row's save was pending, and it counted
\* the one record stored so far.
C26_Witness ==
    /\ reply.query = "dashboard"
    /\ reply.status = 200
    /\ reply.data.totalRecords = 1
    /\ Cardinality(records) = 1
    /\ pc = <<"emitting", "saving">>

---------------------------------------------------------------------------
(* The summary of an upload and the answer of POST /records *)

\* C27: the summary of an upload is sent only after the save and the event
\* emission of every row have settled: when the response is there, every
\* handler has run to its end, the summary satisfies processed = created +
\* errors, and no row is persisted that the summary does not count (stated
\* for a call as a method).
C27_SummaryAfterSettle ==
    (thisBound /\ response.status = 200) =>
        /\ \A i \in RowIds : pc[i] = "done"
        /\ response.processed = response.created + response.errors
        /\ Cardinality({i \in RowIds : Persisted(i)}) = response.created

\* C30: addRecord is all-or-nothing with respect to its answer: the latest
\* request was answered 201 exactly if its record is in the store, and after
\* an answer of 400 or 500 the store holds no record of that request.
C30_AddAllOrNothing ==
    addResponse.status # 0 =>
        /\ addResponse.status = 201 <=> (\E r \in records : r._id = addResponse.id)
        /\ addResponse.status \in {400, 500} =>
              ~\E r \in records : r._id = addResponse.id

---------------------------------------------------------------------------
(* Geographic clustering *)

\* The sum of the values of f over the set S.
RECURSIVE SumOver(_, _)
SumOver(S, f) ==
    IF S = {} THEN 0
    ELSE LET x == CHOOSE x \in S : TRUE IN f[x] + SumOver(S \ {x}, f)

\* C25: with the store reachable, getGeographicData answers with one cluster
\* per distinct cell of the matching records (5,000 at most): the count of a
\* cluster is the number of its records, its suspicious value is the number
\* of the suspicious ones among them and is at most the count, its counts
\* per access type add up to the count, and the counts of the clusters add
\* up to totalRecords, which is at most 5000. Without a filter every stored
\* record matches.
C25_GeographicClusters ==
    (reply.query = "geographic" /\ storeMode = "up") =>
        /\ reply.status = 200
        /\ LET points == reply.data.points
               all == ~reply.asked.hasRange /\ ~reply.asked.hasBounds
           IN  /\ \A p, q \in points : p.cellID = q.cellID => p = q
               /\ all => {p.cellID : p \in points} = {r.originCellID : r \in records}
               /\ \A p \in points :
                     LET cell == {r \in records : r.originCellID = p.cellID}
                     IN  /\ p.count >= 1
                         /\ p.count <= Cardinality(cell)
                         /\ all => p.count = Cardinality(cell)
                         /\ p.suspicious <= p.count
                         /\ p.suspicious <= Cardinality({r \in cell : r.suspicious})
                         /\ all => p.suspicious = Cardinality({r \in cell : r.suspicious})
                         /\ SumOver(DOMAIN p.accessTypes, p.accessTypes) = p.count
               /\ SumOver(points, [p \in points |-> p.count]) = reply.data.totalRecords
               /\ all => reply.data.totalRecords = Cardinality(records)
               /\ reply.data.totalRecords <= 5000

---------------------------------------------------------------------------
(* Concurrent uploads *)

\* The stored form of a valid row, without the _id the store gave it.
StoredForm(row) == [PreSave(NewIPDR(RowToRecordData(row), 0)) EXCEPT !._id = 0]

\* C23: two uploads whose row writes interleave in any order. The counters
\* of a call count rows of its own file only: processed is the number of its
\* rows handed to a handler, created the number of its rows persisted and
\* not above its valid rows, the failure list holds its own malformed rows,
\* and a summary shows nothing above these. Once both calls have run to
\* their end the store is what the two files determine, as after one upload
\* following the other: one record per valid row of either file, with the
\* content of that row, and one event per reason of each record.
C23_ConcurrentBatches ==
    /\ \A f \in {Frame, other} :
          LET ids == 1..Len(f.rows)
              valid == {i \in ids : f.rows[i] # RowBadPort}
              mine == {i \in ids : f.rec[i] \in records}
          IN  /\ f.processed = f.nextRow - 1
              /\ f.processed <= Len(f.rows)
              /\ f.created = Cardinality(mine)
              /\ mine \subseteq valid
              /\ \A n \in 1..Len(f.errors) :
                    f.errors[n].data \in ids \ valid /\ f.pc[f.errors[n].data] = "done"
              /\ Len(f.errors) <= Cardinality(ids \ valid)
              /\ f.response.status = 200 =>
                    /\ f.response.processed = Len(f.rows)
                    /\ f.response.created <= f.created
                    /\ f.response.errors <= Len(f.errors)
              /\ (\A i \in ids : f.pc[i] = "done") =>
                    /\ f.processed = Len(f.rows)
                    /\ f.created = Cardinality(valid)
                    /\ Len(f.errors) = Cardinality(ids \ valid)
    /\ (\A f \in {Frame, other} : \A i \in 1..Len(f.rows) : f.pc[i] = "done") =>
          LET valid == UNION {{f.rows[i] : i \in {j \in 1..Len(f.rows) :
                                                      f.rows[j] # RowBadPort}} :
                                f \in {Frame, other}}
          IN  /\ {[r EXCEPT !._id = 0] : r \in records} = {StoredForm(row) : row \in valid}
              /\ Cardinality(records) =
                     Cardinality({i \in RowIds : rows[i] # RowBadPort})
                     + Cardinality({i \in 1..Len(other.rows) : other.rows[i] # RowBadPort})
              /\ \A r \in records :
                    \A k \in 1..Len(r.suspiciousReasons) :
                        NewSuspiciousActivity(r, k) \in activities
              /\ Cardinality(activities) = SumOver(records, [r \in records |->
                                                      Len(r.suspiciousReasons)])

\* C23 witness: the second file's suspicious row was saved between the
\* saves of two rows of the first file; both calls have answered, every
\* handler has run to its end, and the store holds the three records and
\* the three events.
C23_Witness ==
    /\ response.status = 200
    /\ other.response.status = 200
    /\ \A f \in {Frame, other} : \A i \in 1..Len(f.rows) : f.pc[i] = "done"
    /\ \E f, g \in {Frame, other} :
          /\ Len(f.rows) = 2
          /\ g.rows = <<RowAllRules>>
          /\ f.rec[1]._id < g.rec[1]._id
          /\ g.rec[1]._id < f.rec[2]._id
          /\ f.created = 2
          /\ g.created = 1
    /\ Cardinality(records) = 3
    /\ Cardinality(activities) = 3

---------------------------------------------------------------------------
(* Properties of the login *)

\* C24: with the login requests of an active user processed one at a time,
\* the fifth consecutive failure locks the account for two hours (lockUntil
\* is set to the time of that failure plus two hours, and the account counts
\* five failures or more exactly while lockUntil is set); while the account
\* is locked a request changes nothing in the stored document and is
\* answered without a token, with 423 when it carries a well-formed body for
\* the user's email, the correct password included.
C24_Lockout ==
    [][/\ user'.isActive => (Attempts(user') >= 5 <=> user'.lockUntil # <<>>)
       /\ (Attempts(user) = 4 /\ Attempts(user') = 5) =>
             /\ user'.lockUntil = <<clock + LockHours>>
             /\ \A t \in clock..(clock + LockHours - 1) : isLocked(user', t)
             /\ ~isLocked(user', clock + LockHours)
       /\ (user.isActive /\ isLocked(user, clock) /\ logins' # logins) =>
             /\ Len(logins') = Len(logins) + 1
             /\ logins'[Len(logins')].pc = "done"
             /\ user' = user
             /\ loginResponse'.id = Len(logins')
             /\ ~loginResponse'.token
             /\ loginResponse'.kind \in {"correct", "wrong"} =>
                   loginResponse'.status = 423]_vars

\* C24 witness: five failures have locked the account an hour ago, and the
\* sixth request, with the correct password, has been answered 423.
C24_Witness ==
    /\ Attempts(user) = 5
    /\ user.lockUntil = <<clock + 1>>
    /\ Len(logins) = 6
    /\ loginResponse = [id |-> 6, kind |-> "correct", status |-> 423,
                         success |-> FALSE, token |-> FALSE]

C28_FiveFailuresLock ==
    Attempts(user) >= 5 => user.lockUntil # <<>>

====
